---- MODULE Spec2Model ----
(***************************************************************************)
(* Job-application tracker: the record store (applications, tasks) behind  *)
(* the pages Applications, ApplicationDetail, Tasks and TaskDetail, and    *)
(* the relational storage with its row-level policies, foreign keys,       *)
(* check constraint and triggers.                                          *)
(*                                                                         *)
(* A text value is a sequence of one-character strings.  A nullable column *)
(* is a sequence of length at most one: <<>> is NULL, <<v>> is the value.  *)
(* Row ids (uuid_generate_v4) are fresh naturals; 0 is the empty string    *)
(* the forms hold when no id is selected.                                  *)
(***************************************************************************)
EXTENDS Integers, Sequences, FiniteSets, TLC

VARIABLES applications, tasks, nextAppId, nextTaskId, now, outcome,
          view, loading, submitting, net, hist, session, persisted

storage == <<applications, tasks, nextAppId, nextTaskId, now>>
page    == <<view, loading, submitting, net, hist>>
auth    == <<session, persisted>>
vars    == <<applications, tasks, nextAppId, nextTaskId, now, outcome,
             view, loading, submitting, net, hist, session, persisted>>

\* ------------------------------------------------------------------ bounds
MaxApps  == 1
MaxTasks == 1
MaxClock == 1
MaxToggles == 2
MaxFormApps == 1
MaxFormTasks == 1
MaxPageTasks == 1
MaxListApps == 3
MaxListTasks == 2
MaxSubmits == 1
MaxStampTasks == 2
MaxEditTasks == 2
MaxStatTasks == 1
MaxStatApps == 1
MaxCascadeTasks == 2
MaxStoreInFlight == 1
MaxInFlight == 2

\* --------------------------------------------------------- program constants
MaxCompanyLen  == 100
MaxPositionLen == 100
MaxTitleLen    == 200
MaxNotesLen    == 1000
EmptyId        == 0

Users == {"A", "B"}

\* No signed-in user: user?.id is undefined, auth.uid() is NULL.
NoUser == ""

ValidStatus == {"applied", "interview", "offer", "rejected"}

DefaultStatus == "applied"

\* ------------------------------------------------------------------- text
Null == <<>>

Some(v) == <<v>>

Rep(n, c) == [i \in 1..n |-> c]

\* The WhiteSpace and LineTerminator characters String.prototype.trim strips:
\* space, tab, line feed, carriage return, form feed, vertical tab,
\* no-break space, byte order mark and ogham space mark, written as
\* themselves, and the other space separators and the line and paragraph
\* separators, which a string of this module cannot hold and which a text
\* holds as the name of their code point.
IsWhitespace(c) ==
  c \in {" ", "\t", "\n", "\r", "\f", "", " ", "﻿", " ",
         "U+2000", "U+2001", "U+2002", "U+2003", "U+2004", "U+2005", "U+2006",
         "U+2007", "U+2008", "U+2009", "U+200A", "U+2028", "U+2029", "U+202F",
         "U+205F", "U+3000"}

RECURSIVE TrimStart(_)
TrimStart(s) ==
  IF s = <<>> THEN s
  ELSE IF IsWhitespace(Head(s)) THEN TrimStart(Tail(s)) ELSE s

RECURSIVE TrimEnd(_)
TrimEnd(s) ==
  IF s = <<>> THEN s
  ELSE IF IsWhitespace(s[Len(s)]) THEN TrimEnd(SubSeq(s, 1, Len(s) - 1)) ELSE s

\* String.prototype.trim
Trim(s) == TrimEnd(TrimStart(s))

\* s || null
OrNull(s) == IF s = <<>> THEN Null ELSE Some(s)

\* v || ''
OrEmpty(o) == IF o = Null THEN <<>> ELSE o[1]

\* ------------------------------------------------------------ zod schemas
\* The message of a string longer than .max(n) allows.
TooBig(maxLen) ==
  CASE maxLen = MaxCompanyLen -> "String must contain at most 100 character(s)"
    [] maxLen = MaxTitleLen   -> "String must contain at most 200 character(s)"
    [] OTHER                  -> "String must contain at most 1000 character(s)"

UntrimmedStringIssues(path, s, requiredMsg, maxLen) ==
  (IF Len(s) < 1 THEN <<[path |-> path, code |-> "too_small", message |-> requiredMsg]>>
   ELSE <<>>)
  \o
  (IF Len(s) > maxLen
     THEN <<[path |-> path, code |-> "too_big", message |-> TooBig(maxLen)]>>
   ELSE <<>>)

\* z.string().trim().min(1, msg).max(n): the checks run on the trimmed text,
\* every failing check adds an issue, in the order the checks are written.
TrimmedStringIssues(path, s, requiredMsg, maxLen) ==
  LET t == Trim(s) IN
    (IF Len(t) < 1 THEN <<[path |-> path, code |-> "too_small", message |-> requiredMsg]>>
     ELSE <<>>)
    \o
    (IF Len(t) > maxLen
       THEN <<[path |-> path, code |-> "too_big", message |-> TooBig(maxLen)]>>
     ELSE <<>>)

\* z.string().max(1000).optional(): no trim, the raw text is measured.
NotesIssues(s) ==
  IF Len(s) > MaxNotesLen
    THEN <<[path |-> "notes", code |-> "too_big", message |-> TooBig(MaxNotesLen)]>>
  ELSE <<>>

\* applicationSchema.parse({ company, position, notes }): issues in key order.
applicationSchemaIssues(company, position, notes) ==
  TrimmedStringIssues("company", company, "Company name is required", MaxCompanyLen)
  \o TrimmedStringIssues("position", position, "Position is required", MaxPositionLen)
  \o NotesIssues(notes)

\* taskSchema.parse({ title, notes })
taskSchemaIssues(title, notes) ==
  TrimmedStringIssues("title", title, "Title is required", MaxTitleLen)
  \o NotesIssues(notes)

applicationSchemaIssues_NoTrim(company, position, notes) ==
  UntrimmedStringIssues("company", company, "Company name is required", MaxCompanyLen)
  \o UntrimmedStringIssues("position", position, "Position is required", MaxPositionLen)
  \o NotesIssues(notes)

\* The applicationSchema of ApplicationDetail (a second declaration):
\* applicationSchema.parse({ company, position, notes }).
applicationSchemaIssues_ApplicationDetail(company, position, notes) ==
  TrimmedStringIssues("company", company, "Company name is required", MaxCompanyLen)
  \o TrimmedStringIssues("position", position, "Position is required", MaxPositionLen)
  \o NotesIssues(notes)

\* The taskSchema of TaskDetail (a second declaration):
\* taskSchema.parse({ title, notes }).
taskSchemaIssues_TaskDetail(title, notes) ==
  TrimmedStringIssues("title", title, "Title is required", MaxTitleLen)
  \o NotesIssues(notes)

\* ---------------------------------------------------------------- storage
\* Row-level policies: auth.uid() = user_id.  Without a session auth.uid() is
\* NULL and the comparison is not true, whatever the row.
ViewAllApplications(uid, row) == TRUE

ViewOwnApplications(uid, row) == uid # NoUser /\ uid = row.user_id

InsertOwnApplications(uid, row) == uid # NoUser /\ uid = row.user_id

UpdateOwnApplications(uid, row) == uid # NoUser /\ uid = row.user_id

DeleteOwnApplications(uid, row) == uid # NoUser /\ uid = row.user_id

ViewAllTasks(uid, row) == TRUE

ViewOwnTasks(uid, row) == uid # NoUser /\ uid = row.user_id

InsertOwnTasks(uid, row) == uid # NoUser /\ uid = row.user_id

UpdateOwnTasks(uid, row) == uid # NoUser /\ uid = row.user_id

DeleteOwnTasks(uid, row) == uid # NoUser /\ uid = row.user_id

\* CONSTRAINT valid_status CHECK (status IN (...))
valid_status(row) == row.status \in ValidStatus

\* application_id REFERENCES applications(id): the referential check reads the
\* referenced table directly, row-level policies do not apply to it.
FkApplication(apps, id) == \E a \in apps : a.id = id

\* SELECT under the caller's policies.
SelectApplications(uid) == {a \in applications : ViewOwnApplications(uid, a)}

SelectTasks(uid) == {t \in tasks : ViewOwnTasks(uid, t)}

InsertApplicationDefaultStatus(uid, vals) ==
  LET row == [id |-> nextAppId, user_id |-> vals.user_id, company |-> vals.company,
              position |-> vals.position, status |-> DefaultStatus, notes |-> vals.notes,
              created_at |-> now, updated_at |-> now]
  IN IF uid = row.user_id
       THEN [error |-> FALSE, apps |-> applications \cup {row}]
       ELSE [error |-> TRUE, apps |-> applications]

\* INSERT INTO applications: defaults (id, created_at, updated_at), WITH CHECK,
\* valid_status.  Result: error flag and the table afterwards.
InsertApplication(uid, vals) ==
  LET row == [id |-> nextAppId, user_id |-> vals.user_id, company |-> vals.company,
              position |-> vals.position, status |-> vals.status, notes |-> vals.notes,
              created_at |-> now, updated_at |-> now]
  IN IF InsertOwnApplications(uid, row) /\ valid_status(row)
       THEN [error |-> FALSE, apps |-> applications \cup {row}]
       ELSE [error |-> TRUE, apps |-> applications]

no_trigger(new) == new

\* BEFORE UPDATE trigger update_updated_at_column.
update_updated_at_column(new) == [new EXCEPT !.updated_at = now]

UpdateApplicationReinsert(uid, id, patch) ==
  LET hit == {a \in applications :
                a.id = id /\ ViewOwnApplications(uid, a) /\ UpdateOwnApplications(uid, a)}
      new(a) == [a EXCEPT !.id = nextAppId, !.company = patch.company,
                          !.position = patch.position, !.status = patch.status,
                          !.notes = patch.notes, !.created_at = now, !.updated_at = now]
  IN [error |-> FALSE, apps |-> (applications \ hit) \cup {new(a) : a \in hit},
      count |-> Cardinality(hit)]

\* UPDATE applications SET ... WHERE id = $id, under the caller's policies.
UpdateApplication(uid, id, patch) ==
  LET hit == {a \in applications :
                a.id = id /\ ViewOwnApplications(uid, a) /\ UpdateOwnApplications(uid, a)}
      new(a) == update_updated_at_column(
                  [a EXCEPT !.company = patch.company, !.position = patch.position,
                            !.status = patch.status, !.notes = patch.notes])
  IN IF \E a \in hit : ~(UpdateOwnApplications(uid, new(a)) /\ valid_status(new(a)))
       THEN [error |-> TRUE, apps |-> applications, count |-> 0]
       ELSE [error |-> FALSE, apps |-> (applications \ hit) \cup {new(a) : a \in hit},
             count |-> Cardinality(hit)]

\* ON DELETE CASCADE of tasks.application_id: every referencing row goes with
\* the application, in the same statement.
NoCascade(deleted) == tasks

CascadeTasks(deleted) == {t \in tasks : \A a \in deleted : t.application_id # a.id}

\* DELETE FROM applications WHERE id = $id, under the caller's policies.
DeleteApplication(uid, id) ==
  LET hit == {a \in applications :
                a.id = id /\ ViewOwnApplications(uid, a) /\ DeleteOwnApplications(uid, a)}
  IN [error |-> FALSE, apps |-> applications \ hit, tasks |-> CascadeTasks(hit),
      count |-> Cardinality(hit)]

\* INSERT INTO tasks: defaults (id, completed, timestamps), WITH CHECK, foreign key.
InsertTask(uid, vals) ==
  LET row == [id |-> nextTaskId, application_id |-> vals.application_id,
              user_id |-> vals.user_id, title |-> vals.title, due_date |-> vals.due_date,
              completed |-> FALSE, notes |-> vals.notes,
              created_at |-> now, updated_at |-> now]
  IN IF InsertOwnTasks(uid, row) /\ FkApplication(applications, row.application_id)
       THEN [error |-> FALSE, tasks |-> tasks \cup {row}]
       ELSE [error |-> TRUE, tasks |-> tasks]

UpdateTaskAllRows(uid, id, cols, patch) ==
  LET hit == {t \in tasks : ViewOwnTasks(uid, t) /\ UpdateOwnTasks(uid, t)}
      set(t) == [c \in DOMAIN t |-> IF c \in cols THEN patch[c] ELSE t[c]]
      new(t) == update_updated_at_column(set(t))
  IN [error |-> FALSE, tasks |-> (tasks \ hit) \cup {new(t) : t \in hit},
      count |-> Cardinality(hit)]

\* UPDATE tasks SET <patch> WHERE id = $id; patch is a set of column names and
\* the values for them.
UpdateTask(uid, id, cols, patch) ==
  LET hit == {t \in tasks : t.id = id /\ ViewOwnTasks(uid, t) /\ UpdateOwnTasks(uid, t)}
      set(t) == [c \in DOMAIN t |-> IF c \in cols THEN patch[c] ELSE t[c]]
      new(t) == update_updated_at_column(set(t))
  IN IF \E t \in hit : ~(UpdateOwnTasks(uid, new(t))
                          /\ FkApplication(applications, new(t).application_id))
       THEN [error |-> TRUE, tasks |-> tasks, count |-> 0]
       ELSE [error |-> FALSE, tasks |-> (tasks \ hit) \cup {new(t) : t \in hit},
             count |-> Cardinality(hit)]

DeleteTaskAllRows(uid, id) ==
  LET hit == {t \in tasks : ViewOwnTasks(uid, t) /\ DeleteOwnTasks(uid, t)}
  IN [error |-> FALSE, tasks |-> tasks \ hit, count |-> Cardinality(hit)]

\* DELETE FROM tasks WHERE id = $id.
DeleteTask(uid, id) ==
  LET hit == {t \in tasks : t.id = id /\ ViewOwnTasks(uid, t) /\ DeleteOwnTasks(uid, t)}
  IN [error |-> FALSE, tasks |-> tasks \ hit, count |-> Cardinality(hit)]

\* .select('*').eq('id', id).maybeSingle(): the row as <<row>>, or <<>>.
MaybeSingle(rows) == IF rows = {} THEN Null ELSE Some(CHOOSE r \in rows : TRUE)

\* ------------------------------------------------------------ list orders
CreatedAsc(a, b) == a.created_at < b.created_at

\* .order('created_at', { ascending: false })
CreatedDesc(a, b) == a.created_at > b.created_at

DueAscNullsFirstCreatedDesc(a, b) ==
  \/ a.due_date = Null /\ b.due_date # Null
  \/ a.due_date # Null /\ b.due_date # Null /\ a.due_date[1] < b.due_date[1]
  \/ a.due_date = b.due_date /\ a.created_at > b.created_at

\* .order('due_date', { ascending: true, nullsFirst: false })
\* .order('created_at', { ascending: false })
DueAscNullsLastCreatedDesc(a, b) ==
  \/ a.due_date # Null /\ b.due_date = Null
  \/ a.due_date # Null /\ b.due_date # Null /\ a.due_date[1] < b.due_date[1]
  \/ a.due_date = b.due_date /\ a.created_at > b.created_at

\* The sequences an ORDER BY may return for a set of rows: every arrangement
\* in which no row comes after one it sorts strictly before.  Rows the sort
\* keys do not separate come in any order.
Arrangements(rows) ==
  LET n == Cardinality(rows)
  IN {s \in [1..n -> rows] : \A i, j \in 1..n : i # j => s[i] # s[j]}

OrderedCreatedDesc(rows) ==
  {s \in Arrangements(rows) :
     \A i, j \in 1..Len(s) : i < j => ~CreatedDesc(s[j], s[i])}

OrderedDueAscNullsLastCreatedDesc(rows) ==
  {s \in Arrangements(rows) :
     \A i, j \in 1..Len(s) : i < j => ~DueAscNullsLastCreatedDesc(s[j], s[i])}

\* select('*, applications (company, position)'): the parent row embedded as
\* far as the caller's policies show it.
WithApplication(uid, t) ==
  LET parent == {a \in SelectApplications(uid) : a.id = t.application_id}
  IN [id |-> t.id, application_id |-> t.application_id, user_id |-> t.user_id,
      title |-> t.title, due_date |-> t.due_date, completed |-> t.completed,
      notes |-> t.notes, created_at |-> t.created_at, updated_at |-> t.updated_at,
      applications |-> IF parent = {} THEN Null
                       ELSE LET a == CHOOSE a \in parent : TRUE
                            IN Some([company |-> a.company, position |-> a.position])]

\* ---------------------------------------------------------------- handlers
\* The handlers of the pages as the record store sees them.  A handler runs
\* to its await and returns to the event loop with its request under way in
\* net; the request is served at the storage, or fails on the way, at a later
\* moment; the handler runs on when the response is handled, later again.
\* Calls of other pages and users come between these steps.  A fetch that a
\* handler calls at its end (fetchApplications() in handleSubmit) runs to its
\* own await within the step that calls it.  view, loading and submitting are
\* the state of the page as the handlers write it.
Outcome(op, caller, id, input, toasts, navigate, data, effect) ==
  [op |-> op, caller |-> caller, id |-> id, input |-> input, toasts |-> toasts,
   navigate |-> navigate, data |-> data, effect |-> effect]

\* What the call did to the tables (the caller is not told): the rows its
\* statement wrote or removed, and the tasks a cascade removed with them.
Effect(rows, cascaded) == [rows |-> rows, cascaded |-> cascaded, failed |-> FALSE]

NoEffect == Effect(0, 0)

\* The request failed on the way: the storage is not touched, the client gets
\* an error.
RequestFailed == [rows |-> 0, cascaded |-> 0, failed |-> TRUE]

NoInput == [none |-> TRUE]

\* A number no request of `reqs` carries: two equal requests under way are
\* two requests.
FreshRid(reqs) ==
  CHOOSE n \in 1..(Cardinality(reqs) + 1) :
    /\ n \notin {q.rid : q \in reqs}
    /\ \A m \in 1..(n - 1) : m \in {q.rid : q \in reqs}

\* The request of a handler that stands at its await: the handler (kind), the
\* caller, the id of the page, the form as typed (input) and the values sent
\* (vals).  error, data and effect are the response, once the request is
\* answered; id of an insert is then the id the storage gave the row.
Awaited(rid, kind, uid, id, input, vals) ==
  [rid |-> rid, kind |-> kind, stage |-> "sent", uid |-> uid, id |-> id,
   input |-> input, vals |-> vals, error |-> FALSE, data |-> <<>>, effect |-> NoEffect]

\* The response of the storage to request q.
Answered(q, id, error, data, effect) ==
  [q EXCEPT !.stage = "answered", !.id = id, !.error = error, !.data = data,
            !.effect = effect]

\* outcome is what the latest step has shown the user.  A handler that
\* returns to the event loop at its await has shown nothing, nor does a step
\* of the storage.
NothingShown == Outcome("none", "", EmptyId, NoInput, <<>>, "", <<>>, NoEffect)

\* The request of q fails on the way.
RequestOfHandlerFails(q) ==
  /\ q.kind \in {"Applications.fetchApplications", "Applications.handleSubmit",
                 "ApplicationDetail.fetchApplication", "ApplicationDetail.handleUpdate",
                 "ApplicationDetail.handleDelete", "Tasks.fetchTasks",
                 "Tasks.handleSubmit", "Tasks.toggleComplete", "TaskDetail.fetchTask",
                 "TaskDetail.handleUpdate", "TaskDetail.handleDelete"}
  /\ q.stage = "sent"
  /\ net' = (net \ {q}) \cup {Answered(q, q.id, TRUE, Null, RequestFailed)}
  /\ outcome' = NothingShown
  /\ UNCHANGED <<storage, view, loading, submitting, hist, auth>>

\* The rows fetchApplications puts on the page, for a table `apps`.
FetchApplicationsData(uid, apps) ==
  OrderedCreatedDesc({a \in apps : ViewOwnApplications(uid, a)})

\* fetchApplications() to its await, with `others` under way.
ApplicationsFetchApplicationsCalled(others, u) ==
  /\ loading' = TRUE
  /\ net' = others \cup {Awaited(FreshRid(others), "Applications.fetchApplications", u,
                                 EmptyId, NoInput, NoInput)}

\* Applications.fetchApplications, called when the page mounts.
ApplicationsFetchApplications(u) ==
  /\ ApplicationsFetchApplicationsCalled(net, u)
  /\ outcome' = NothingShown
  /\ UNCHANGED <<storage, view, submitting, hist, auth>>

\* The select of fetchApplications at the storage.
ApplicationsFetchApplicationsServed(q) ==
  /\ q.kind = "Applications.fetchApplications"
  /\ q.stage = "sent"
  /\ \E list \in FetchApplicationsData(q.uid, applications) :
       net' = (net \ {q}) \cup {Answered(q, q.id, FALSE, list, NoEffect)}
  /\ outcome' = NothingShown
  /\ UNCHANGED <<storage, view, loading, submitting, hist, auth>>

\* Applications.fetchApplications on its response.
ApplicationsFetchApplicationsResumed(q) ==
  /\ q.kind = "Applications.fetchApplications"
  /\ q.stage = "answered"
  /\ IF q.error
       THEN /\ outcome' = Outcome(q.kind, q.uid, EmptyId, NoInput,
                                  <<"Failed to load applications">>, "", <<>>, q.effect)
            /\ UNCHANGED view
       ELSE /\ outcome' = Outcome(q.kind, q.uid, EmptyId, NoInput, <<>>, "", q.data,
                                  q.effect)
            /\ view' = q.data
  /\ loading' = FALSE
  /\ net' = net \ {q}
  /\ UNCHANGED <<storage, submitting, hist, auth>>

\* Applications.handleSubmit to its await: the form holds company, position,
\* status, notes.
ApplicationsHandleSubmit(u, company, position, status, notes) ==
  LET input  == [company |-> company, position |-> position, status |-> status,
                 notes |-> notes]
      issues == applicationSchemaIssues(company, position, notes)
  IN /\ IF issues # <<>>
          THEN /\ outcome' = Outcome("Applications.handleSubmit", u, EmptyId, input,
                                     <<issues[1].message>>, "", <<>>, NoEffect)
               /\ UNCHANGED <<submitting, net>>
          ELSE /\ submitting' = TRUE
               /\ net' = net \cup
                    {Awaited(FreshRid(net), "Applications.handleSubmit", u, EmptyId, input,
                             [user_id |-> u, company |-> Trim(company),
                              position |-> Trim(position), status |-> status,
                              notes |-> OrNull(Trim(notes))])}
               /\ outcome' = NothingShown
     /\ UNCHANGED <<storage, view, loading, hist, auth>>

\* The insert of handleSubmit at the storage.
ApplicationsHandleSubmitServed(q) ==
  /\ q.kind = "Applications.handleSubmit"
  /\ q.stage = "sent"
  /\ LET r == InsertApplication(q.uid, q.vals)
     IN IF r.error
          THEN /\ net' = (net \ {q}) \cup {Answered(q, q.id, TRUE, Null, NoEffect)}
               /\ UNCHANGED <<applications, nextAppId>>
          ELSE /\ applications' = r.apps
               /\ nextAppId' = nextAppId + 1
               /\ net' = (net \ {q}) \cup {Answered(q, nextAppId, FALSE, Null, Effect(1, 0))}
  /\ outcome' = NothingShown
  /\ UNCHANGED <<tasks, nextTaskId, now, view, loading, submitting, hist, auth>>

\* Applications.handleSubmit on its response.
ApplicationsHandleSubmitResumed(q) ==
  /\ q.kind = "Applications.handleSubmit"
  /\ q.stage = "answered"
  /\ IF q.error
       THEN /\ outcome' = Outcome(q.kind, q.uid, EmptyId, q.input,
                                  <<"Failed to create application">>, "", <<>>, q.effect)
            /\ net' = net \ {q}
            /\ UNCHANGED loading
       ELSE /\ outcome' = Outcome(q.kind, q.uid, q.id, q.input,
                                  <<"Application created successfully">>, "", <<>>,
                                  q.effect)
            /\ ApplicationsFetchApplicationsCalled(net \ {q}, q.uid)
  /\ submitting' = FALSE
  /\ UNCHANGED <<storage, view, hist, auth>>

\* The page state fetchApplication sets from a row.
ApplicationForm(row) ==
  [id |-> row.id, user_id |-> row.user_id, company |-> row.company,
   position |-> row.position, status |-> row.status, notes |-> OrEmpty(row.notes),
   created_at |-> row.created_at, updated_at |-> row.updated_at]

\* The row the select of fetchApplication returns for a table `apps`.
FetchApplicationData(uid, id, apps) ==
  MaybeSingle({a \in apps : ViewOwnApplications(uid, a) /\ a.id = id})

\* fetchApplication() to its await, with `others` under way.
ApplicationDetailFetchApplicationCalled(others, u, id) ==
  /\ loading' = TRUE
  /\ net' = others \cup {Awaited(FreshRid(others), "ApplicationDetail.fetchApplication",
                                 u, id, NoInput, NoInput)}

\* ApplicationDetail.fetchApplication, called when the page mounts.
ApplicationDetailFetchApplication(u, id) ==
  /\ ApplicationDetailFetchApplicationCalled(net, u, id)
  /\ outcome' = NothingShown
  /\ UNCHANGED <<storage, view, submitting, hist, auth>>

\* The select of fetchApplication at the storage.
ApplicationDetailFetchApplicationServed(q) ==
  /\ q.kind = "ApplicationDetail.fetchApplication"
  /\ q.stage = "sent"
  /\ net' = (net \ {q}) \cup
       {Answered(q, q.id, FALSE, FetchApplicationData(q.uid, q.id, applications),
                 NoEffect)}
  /\ outcome' = NothingShown
  /\ UNCHANGED <<storage, view, loading, submitting, hist, auth>>

\* ApplicationDetail.fetchApplication on its response.
ApplicationDetailFetchApplicationResumed(q) ==
  /\ q.kind = "ApplicationDetail.fetchApplication"
  /\ q.stage = "answered"
  /\ IF q.error \/ q.data = Null
       THEN /\ outcome' = Outcome(q.kind, q.uid, q.id, NoInput,
                                  <<"Failed to load application">>, "/applications", Null,
                                  q.effect)
            /\ UNCHANGED view
       ELSE /\ outcome' = Outcome(q.kind, q.uid, q.id, NoInput, <<>>, "",
                                  Some(ApplicationForm(q.data[1])), q.effect)
            /\ view' = Some(ApplicationForm(q.data[1]))
  /\ loading' = FALSE
  /\ net' = net \ {q}
  /\ UNCHANGED <<storage, submitting, hist, auth>>

\* ApplicationDetail.handleUpdate to its await.
ApplicationDetailHandleUpdate(u, id, company, position, status, notes) ==
  LET input  == [company |-> company, position |-> position, status |-> status,
                 notes |-> notes]
      issues == applicationSchemaIssues_ApplicationDetail(company, position, notes)
  IN /\ IF issues # <<>>
          THEN /\ outcome' = Outcome("ApplicationDetail.handleUpdate", u, id, input,
                                     <<issues[1].message>>, "", <<>>, NoEffect)
               /\ UNCHANGED <<submitting, net>>
          ELSE /\ submitting' = TRUE
               /\ net' = net \cup
                    {Awaited(FreshRid(net), "ApplicationDetail.handleUpdate", u, id, input,
                             [company |-> Trim(company), position |-> Trim(position),
                              status |-> status, notes |-> OrNull(Trim(notes))])}
               /\ outcome' = NothingShown
     /\ UNCHANGED <<storage, view, loading, hist, auth>>

\* The update of handleUpdate at the storage.
ApplicationDetailHandleUpdateServed(q) ==
  /\ q.kind = "ApplicationDetail.handleUpdate"
  /\ q.stage = "sent"
  /\ LET r == UpdateApplication(q.uid, q.id, q.vals)
     IN /\ applications' = r.apps
        /\ net' = (net \ {q}) \cup {Answered(q, q.id, r.error, Null, Effect(r.count, 0))}
  /\ outcome' = NothingShown
  /\ UNCHANGED <<tasks, nextAppId, nextTaskId, now, view, loading, submitting, hist,
                 auth>>

\* ApplicationDetail.handleUpdate on its response.
ApplicationDetailHandleUpdateResumed(q) ==
  /\ q.kind = "ApplicationDetail.handleUpdate"
  /\ q.stage = "answered"
  /\ IF q.error
       THEN /\ outcome' = Outcome(q.kind, q.uid, q.id, q.input,
                                  <<"Failed to update application">>, "", <<>>, q.effect)
            /\ net' = net \ {q}
            /\ UNCHANGED loading
       ELSE /\ outcome' = Outcome(q.kind, q.uid, q.id, q.input,
                                  <<"Application updated successfully">>, "", <<>>,
                                  q.effect)
            /\ ApplicationDetailFetchApplicationCalled(net \ {q}, q.uid, q.id)
  /\ submitting' = FALSE
  /\ UNCHANGED <<storage, view, hist, auth>>

\* ApplicationDetail.handleDelete to its await.
ApplicationDetailHandleDelete(u, id) ==
  /\ net' = net \cup {Awaited(FreshRid(net), "ApplicationDetail.handleDelete", u, id,
                              NoInput, NoInput)}
  /\ outcome' = NothingShown
  /\ UNCHANGED <<storage, view, loading, submitting, hist, auth>>

\* The delete of handleDelete at the storage, with its cascade.
ApplicationDetailHandleDeleteServed(q) ==
  /\ q.kind = "ApplicationDetail.handleDelete"
  /\ q.stage = "sent"
  /\ LET r == DeleteApplication(q.uid, q.id)
     IN /\ applications' = r.apps
        /\ tasks' = r.tasks
        /\ net' = (net \ {q}) \cup
             {Answered(q, q.id, r.error, Null,
                       Effect(r.count, Cardinality(tasks) - Cardinality(r.tasks)))}
  /\ outcome' = NothingShown
  /\ UNCHANGED <<nextAppId, nextTaskId, now, view, loading, submitting, hist, auth>>

\* ApplicationDetail.handleDelete on its response.
ApplicationDetailHandleDeleteResumed(q) ==
  /\ q.kind = "ApplicationDetail.handleDelete"
  /\ q.stage = "answered"
  /\ outcome' = IF q.error
                  THEN Outcome(q.kind, q.uid, q.id, NoInput,
                               <<"Failed to delete application">>, "", <<>>, q.effect)
                  ELSE Outcome(q.kind, q.uid, q.id, NoInput,
                               <<"Application deleted successfully">>, "/applications",
                               <<>>, q.effect)
  /\ net' = net \ {q}
  /\ UNCHANGED <<storage, view, loading, submitting, hist, auth>>

\* The rows fetchTasks puts on the page, for a tasks table `tks`.
FetchTasksData(uid, tks) ==
  OrderedDueAscNullsLastCreatedDesc(
    {WithApplication(uid, t) : t \in {x \in tks : ViewOwnTasks(uid, x)}})

\* fetchTasks() to its await, with `others` under way.
TasksFetchTasksCalled(others, u) ==
  /\ loading' = TRUE
  /\ net' = others \cup {Awaited(FreshRid(others), "Tasks.fetchTasks", u, EmptyId,
                                 NoInput, NoInput)}

\* Tasks.fetchTasks, called when the page mounts.
TasksFetchTasks(u) ==
  /\ TasksFetchTasksCalled(net, u)
  /\ outcome' = NothingShown
  /\ UNCHANGED <<storage, view, submitting, hist, auth>>

\* The select of fetchTasks at the storage.
TasksFetchTasksServed(q) ==
  /\ q.kind = "Tasks.fetchTasks"
  /\ q.stage = "sent"
  /\ \E list \in FetchTasksData(q.uid, tasks) :
       net' = (net \ {q}) \cup {Answered(q, q.id, FALSE, list, NoEffect)}
  /\ outcome' = NothingShown
  /\ UNCHANGED <<storage, view, loading, submitting, hist, auth>>

\* Tasks.fetchTasks on its response.
TasksFetchTasksResumed(q) ==
  /\ q.kind = "Tasks.fetchTasks"
  /\ q.stage = "answered"
  /\ IF q.error
       THEN /\ outcome' = Outcome(q.kind, q.uid, EmptyId, NoInput,
                                  <<"Failed to load tasks">>, "", <<>>, q.effect)
            /\ UNCHANGED view
       ELSE /\ outcome' = Outcome(q.kind, q.uid, EmptyId, NoInput, <<>>, "", q.data,
                                  q.effect)
            /\ view' = q.data
  /\ loading' = FALSE
  /\ net' = net \ {q}
  /\ UNCHANGED <<storage, submitting, hist, auth>>

\* Tasks.handleSubmit to its await: the form holds title, applicationId,
\* dueDate, notes.
TasksHandleSubmit(u, title, applicationId, dueDate, notes) ==
  LET input  == [title |-> title, applicationId |-> applicationId, dueDate |-> dueDate,
                 notes |-> notes]
      issues == taskSchemaIssues(title, notes)
  IN /\ IF issues # <<>>
          THEN /\ outcome' = Outcome("Tasks.handleSubmit", u, EmptyId, input,
                                     <<issues[1].message>>, "", <<>>, NoEffect)
               /\ UNCHANGED <<submitting, net>>
        ELSE IF applicationId = EmptyId
          THEN /\ outcome' = Outcome("Tasks.handleSubmit", u, EmptyId, input,
                                     <<"Please select an application">>, "", <<>>,
                                     NoEffect)
               /\ UNCHANGED <<submitting, net>>
        ELSE /\ submitting' = TRUE
             /\ net' = net \cup
                  {Awaited(FreshRid(net), "Tasks.handleSubmit", u, EmptyId, input,
                           [user_id |-> u, application_id |-> applicationId,
                            title |-> Trim(title),
                            due_date |-> IF dueDate = <<>> THEN Null ELSE dueDate,
                            notes |-> OrNull(Trim(notes))])}
             /\ outcome' = NothingShown
     /\ UNCHANGED <<storage, view, loading, hist, auth>>

\* The insert of handleSubmit at the storage.
TasksHandleSubmitServed(q) ==
  /\ q.kind = "Tasks.handleSubmit"
  /\ q.stage = "sent"
  /\ LET r == InsertTask(q.uid, q.vals)
     IN IF r.error
          THEN /\ net' = (net \ {q}) \cup {Answered(q, q.id, TRUE, Null, NoEffect)}
               /\ UNCHANGED <<tasks, nextTaskId>>
          ELSE /\ tasks' = r.tasks
               /\ nextTaskId' = nextTaskId + 1
               /\ net' = (net \ {q}) \cup {Answered(q, nextTaskId, FALSE, Null, Effect(1, 0))}
  /\ outcome' = NothingShown
  /\ UNCHANGED <<applications, nextAppId, now, view, loading, submitting, hist, auth>>

\* Tasks.handleSubmit on its response.
TasksHandleSubmitResumed(q) ==
  /\ q.kind = "Tasks.handleSubmit"
  /\ q.stage = "answered"
  /\ IF q.error
       THEN /\ outcome' = Outcome(q.kind, q.uid, EmptyId, q.input,
                                  <<"Failed to create task">>, "", <<>>, q.effect)
            /\ net' = net \ {q}
            /\ UNCHANGED loading
       ELSE /\ outcome' = Outcome(q.kind, q.uid, q.id, q.input,
                                  <<"Task created successfully">>, "", <<>>, q.effect)
            /\ TasksFetchTasksCalled(net \ {q}, q.uid)
  /\ submitting' = FALSE
  /\ UNCHANGED <<storage, view, hist, auth>>

\* Tasks.toggleComplete(task) to its await: task is the row the page
\* displays, which may be older than the stored row.
TasksToggleComplete(u, task) ==
  /\ net' = net \cup {Awaited(FreshRid(net), "Tasks.toggleComplete", u, task.id, task,
                              [completed |-> ~task.completed])}
  /\ outcome' = NothingShown
  /\ UNCHANGED <<storage, view, loading, submitting, hist, auth>>

\* The update of toggleComplete at the storage.
TasksToggleCompleteServed(q) ==
  /\ q.kind = "Tasks.toggleComplete"
  /\ q.stage = "sent"
  /\ LET r == UpdateTask(q.uid, q.id, {"completed"}, q.vals)
     IN /\ tasks' = r.tasks
        /\ net' = (net \ {q}) \cup {Answered(q, q.id, r.error, Null, Effect(r.count, 0))}
  /\ outcome' = NothingShown
  /\ UNCHANGED <<applications, nextAppId, nextTaskId, now, view, loading, submitting,
                 hist, auth>>

\* Tasks.toggleComplete on its response.
TasksToggleCompleteResumed(q) ==
  /\ q.kind = "Tasks.toggleComplete"
  /\ q.stage = "answered"
  /\ IF q.error
       THEN /\ outcome' = Outcome(q.kind, q.uid, q.id, q.input,
                                  <<"Failed to update task">>, "", <<>>, q.effect)
            /\ net' = net \ {q}
            /\ UNCHANGED loading
       ELSE /\ outcome' = Outcome(q.kind, q.uid, q.id, q.input, <<>>, "", <<>>, q.effect)
            /\ TasksFetchTasksCalled(net \ {q}, q.uid)
  /\ UNCHANGED <<storage, view, submitting, hist, auth>>

\* The page state fetchTask sets from a row.
TaskForm(row) ==
  [id |-> row.id, application_id |-> row.application_id, user_id |-> row.user_id,
   title |-> row.title,
   due_date |-> IF row.due_date = Null THEN <<>> ELSE row.due_date,
   completed |-> row.completed, notes |-> OrEmpty(row.notes),
   created_at |-> row.created_at, updated_at |-> row.updated_at]

\* The row the select of fetchTask returns for a tasks table `tks`.
FetchTaskData(uid, id, tks) ==
  MaybeSingle({t \in tks : ViewOwnTasks(uid, t) /\ t.id = id})

\* fetchTask() to its await, with `others` under way.
TaskDetailFetchTaskCalled(others, u, id) ==
  /\ loading' = TRUE
  /\ net' = others \cup {Awaited(FreshRid(others), "TaskDetail.fetchTask", u, id,
                                 NoInput, NoInput)}

\* TaskDetail.fetchTask, called when the page mounts.
TaskDetailFetchTask(u, id) ==
  /\ TaskDetailFetchTaskCalled(net, u, id)
  /\ outcome' = NothingShown
  /\ UNCHANGED <<storage, view, submitting, hist, auth>>

\* The select of fetchTask at the storage.
TaskDetailFetchTaskServed(q) ==
  /\ q.kind = "TaskDetail.fetchTask"
  /\ q.stage = "sent"
  /\ net' = (net \ {q}) \cup
       {Answered(q, q.id, FALSE, FetchTaskData(q.uid, q.id, tasks), NoEffect)}
  /\ outcome' = NothingShown
  /\ UNCHANGED <<storage, view, loading, submitting, hist, auth>>

\* TaskDetail.fetchTask on its response.
TaskDetailFetchTaskResumed(q) ==
  /\ q.kind = "TaskDetail.fetchTask"
  /\ q.stage = "answered"
  /\ IF q.error \/ q.data = Null
       THEN /\ outcome' = Outcome(q.kind, q.uid, q.id, NoInput,
                                  <<"Failed to load task">>, "/tasks", Null, q.effect)
            /\ UNCHANGED view
       ELSE /\ outcome' = Outcome(q.kind, q.uid, q.id, NoInput, <<>>, "",
                                  Some(TaskForm(q.data[1])), q.effect)
            /\ view' = Some(TaskForm(q.data[1]))
  /\ loading' = FALSE
  /\ net' = net \ {q}
  /\ UNCHANGED <<storage, submitting, hist, auth>>

\* TaskDetail.handleUpdate to its await.
TaskDetailHandleUpdate(u, id, title, applicationId, dueDate, completed, notes) ==
  LET input  == [title |-> title, applicationId |-> applicationId, dueDate |-> dueDate,
                 completed |-> completed, notes |-> notes]
      issues == taskSchemaIssues_TaskDetail(title, notes)
  IN /\ IF issues # <<>>
          THEN /\ outcome' = Outcome("TaskDetail.handleUpdate", u, id, input,
                                     <<issues[1].message>>, "", <<>>, NoEffect)
               /\ UNCHANGED <<submitting, net>>
        ELSE IF applicationId = EmptyId
          THEN /\ outcome' = Outcome("TaskDetail.handleUpdate", u, id, input,
                                     <<"Please select an application">>, "", <<>>,
                                     NoEffect)
               /\ UNCHANGED <<submitting, net>>
        ELSE /\ submitting' = TRUE
             /\ net' = net \cup
                  {Awaited(FreshRid(net), "TaskDetail.handleUpdate", u, id, input,
                           [title |-> Trim(title), application_id |-> applicationId,
                            due_date |-> IF dueDate = <<>> THEN Null ELSE dueDate,
                            completed |-> completed, notes |-> OrNull(Trim(notes))])}
             /\ outcome' = NothingShown
     /\ UNCHANGED <<storage, view, loading, hist, auth>>

\* The update of handleUpdate at the storage.
TaskDetailHandleUpdateServed(q) ==
  /\ q.kind = "TaskDetail.handleUpdate"
  /\ q.stage = "sent"
  /\ LET r == UpdateTask(q.uid, q.id,
                         {"title", "application_id", "due_date", "completed", "notes"},
                         q.vals)
     IN /\ tasks' = r.tasks
        /\ net' = (net \ {q}) \cup {Answered(q, q.id, r.error, Null, Effect(r.count, 0))}
  /\ outcome' = NothingShown
  /\ UNCHANGED <<applications, nextAppId, nextTaskId, now, view, loading, submitting,
                 hist, auth>>

\* TaskDetail.handleUpdate on its response.
TaskDetailHandleUpdateResumed(q) ==
  /\ q.kind = "TaskDetail.handleUpdate"
  /\ q.stage = "answered"
  /\ IF q.error
       THEN /\ outcome' = Outcome(q.kind, q.uid, q.id, q.input,
                                  <<"Failed to update task">>, "", <<>>, q.effect)
            /\ net' = net \ {q}
            /\ UNCHANGED loading
       ELSE /\ outcome' = Outcome(q.kind, q.uid, q.id, q.input,
                                  <<"Task updated successfully">>, "", <<>>, q.effect)
            /\ TaskDetailFetchTaskCalled(net \ {q}, q.uid, q.id)
  /\ submitting' = FALSE
  /\ UNCHANGED <<storage, view, hist, auth>>

\* TaskDetail.handleDelete to its await.
TaskDetailHandleDelete(u, id) ==
  /\ net' = net \cup {Awaited(FreshRid(net), "TaskDetail.handleDelete", u, id, NoInput,
                              NoInput)}
  /\ outcome' = NothingShown
  /\ UNCHANGED <<storage, view, loading, submitting, hist, auth>>

\* The delete of handleDelete at the storage.
TaskDetailHandleDeleteServed(q) ==
  /\ q.kind = "TaskDetail.handleDelete"
  /\ q.stage = "sent"
  /\ LET r == DeleteTask(q.uid, q.id)
     IN /\ tasks' = r.tasks
        /\ net' = (net \ {q}) \cup {Answered(q, q.id, r.error, Null, Effect(r.count, 0))}
  /\ outcome' = NothingShown
  /\ UNCHANGED <<applications, nextAppId, nextTaskId, now, view, loading, submitting,
                 hist, auth>>

\* TaskDetail.handleDelete on its response.
TaskDetailHandleDeleteResumed(q) ==
  /\ q.kind = "TaskDetail.handleDelete"
  /\ q.stage = "answered"
  /\ outcome' = IF q.error
                  THEN Outcome(q.kind, q.uid, q.id, NoInput, <<"Failed to delete task">>,
                               "", <<>>, q.effect)
                  ELSE Outcome(q.kind, q.uid, q.id, NoInput,
                               <<"Task deleted successfully">>, "/tasks", <<>>, q.effect)
  /\ net' = net \ {q}
  /\ UNCHANGED <<storage, view, loading, submitting, hist, auth>>

\* The statement of a request under way runs at the storage.
Served(q) ==
  \/ ApplicationsFetchApplicationsServed(q)
  \/ ApplicationsHandleSubmitServed(q)
  \/ ApplicationDetailFetchApplicationServed(q)
  \/ ApplicationDetailHandleUpdateServed(q)
  \/ ApplicationDetailHandleDeleteServed(q)
  \/ TasksFetchTasksServed(q)
  \/ TasksHandleSubmitServed(q)
  \/ TasksToggleCompleteServed(q)
  \/ TaskDetailFetchTaskServed(q)
  \/ TaskDetailHandleUpdateServed(q)
  \/ TaskDetailHandleDeleteServed(q)

\* The handler of an answered request runs on.
Resumed(q) ==
  \/ ApplicationsFetchApplicationsResumed(q)
  \/ ApplicationsHandleSubmitResumed(q)
  \/ ApplicationDetailFetchApplicationResumed(q)
  \/ ApplicationDetailHandleUpdateResumed(q)
  \/ ApplicationDetailHandleDeleteResumed(q)
  \/ TasksFetchTasksResumed(q)
  \/ TasksHandleSubmitResumed(q)
  \/ TasksToggleCompleteResumed(q)
  \/ TaskDetailFetchTaskResumed(q)
  \/ TaskDetailHandleUpdateResumed(q)
  \/ TaskDetailHandleDeleteResumed(q)

\* NOW() moves on between statements.
Tick ==
  /\ now < MaxClock
  /\ now' = now + 1
  /\ outcome' = Outcome("tick", "", EmptyId, NoInput, <<>>, "", <<>>, NoEffect)
  /\ UNCHANGED <<applications, tasks, nextAppId, nextTaskId, page, auth>>

\* ---------------------------------------------------------------- session
\* The session of the client (useAuth): Loading until the persisted session is
\* restored, then Anonymous or Authenticated as a user.  user is what the
\* pages read from useAuth(): the signed-in user, or none.  In the
\* specifications of the record store the caller u of an action is a client
\* signed in as u; session and persisted are those of the one client that the
\* specification of the session follows.
Session(state, user) == [state |-> state, user |-> user]

Anonymous == Session("Anonymous", NoUser)

Authenticated(u) == Session("Authenticated", u)

\* Restore-on-start: the persisted session, if any, becomes the current one.
RestoreOnStart ==
  /\ session.state = "Loading"
  /\ session' = IF persisted = NoUser THEN Anonymous ELSE Authenticated(persisted)
  /\ outcome' = Outcome("Session.restore", persisted, EmptyId, NoInput, <<>>, "", <<>>,
                        NoEffect)
  /\ UNCHANGED <<storage, page, persisted>>

SignInIgnoringError(u, valid) ==
  /\ session.state # "Loading"
  /\ session' = Authenticated(u)
  /\ persisted' = u
  /\ outcome' = Outcome("Session.signIn", u, EmptyId, [valid |-> valid],
                        IF valid THEN <<>> ELSE <<"AuthError">>, "", <<>>, NoEffect)
  /\ UNCHANGED <<storage, page>>

\* Sign-in(credentials): valid credentials of user u make u the current and
\* the persisted session; otherwise nothing changes and an AuthError is
\* signalled.
SignIn(u, valid) ==
  /\ session.state # "Loading"
  /\ IF valid
       THEN /\ session' = Authenticated(u)
            /\ persisted' = u
            /\ outcome' = Outcome("Session.signIn", u, EmptyId, [valid |-> valid],
                                  <<>>, "", <<>>, NoEffect)
       ELSE /\ outcome' = Outcome("Session.signIn", u, EmptyId, [valid |-> valid],
                                  <<"AuthError">>, "", <<>>, NoEffect)
            /\ UNCHANGED auth
  /\ UNCHANGED <<storage, page>>

SignOutReloading ==
  /\ session.state = "Authenticated"
  /\ session' = Session("Loading", NoUser)
  /\ persisted' = NoUser
  /\ outcome' = Outcome("Session.signOut", session.user, EmptyId, NoInput, <<>>, "",
                        <<>>, NoEffect)
  /\ UNCHANGED <<storage, page>>

\* Sign-out(): clears the persisted and the current session.  The Navbar
\* offers it to a signed-in user only.
SignOut ==
  /\ session.state = "Authenticated"
  /\ session' = Anonymous
  /\ persisted' = NoUser
  /\ outcome' = Outcome("Session.signOut", session.user, EmptyId, NoInput, <<>>, "",
                        <<>>, NoEffect)
  /\ UNCHANGED <<storage, page>>

\* The provider notifies that the session has expired.
SessionExpired ==
  /\ session.state = "Authenticated"
  /\ session' = Anonymous
  /\ persisted' = NoUser
  /\ outcome' = Outcome("Session.expired", session.user, EmptyId, NoInput, <<>>, "",
                        <<>>, NoEffect)
  /\ UNCHANGED <<storage, page>>

\* ProtectedRoute: the page inside it is on display for a signed-in user
\* only; any other session is sent to the sign-in page.
ProtectedRoute == session.state = "Authenticated"

\* ----------------------------------------------------------- record store
\* The record store with two users calling it: who owns what, who sees what.
Acme == <<"A", "c", "m", "e">>

Engineer == <<"E", "n", "g">>

Call == <<"C", "a", "l", "l">>

AppIdInputs == 1..MaxApps

TaskIdInputs == 1..MaxTasks

Init ==
  /\ applications = {}
  /\ tasks = {}
  /\ nextAppId = 1
  /\ nextTaskId = 1
  /\ now = 0
  /\ outcome = Outcome("init", "", EmptyId, NoInput, <<>>, "", <<>>,
                                    NoEffect)
  /\ view = <<>>
  /\ loading = TRUE
  /\ submitting = FALSE
  /\ net = {}
  /\ hist = <<>>
  /\ session = Session("Loading", NoUser)
  /\ persisted = NoUser

\* The bounds of the model: no more rows are ever created.
WithinBounds == nextAppId' <= MaxApps + 1 /\ nextTaskId' <= MaxTasks + 1

\* No more than n requests are under way.
InFlight(n) == Cardinality(net') <= n

Next ==
  \/ \E u \in Users :
       /\ ApplicationsHandleSubmit(u, Acme, Engineer, DefaultStatus, <<>>)
       /\ InFlight(MaxStoreInFlight)
  \/ \E u \in Users, id \in AppIdInputs :
       ApplicationDetailFetchApplication(u, id) /\ InFlight(MaxStoreInFlight)
  \/ \E u \in Users, id \in AppIdInputs :
       /\ ApplicationDetailHandleUpdate(u, id, Acme, Engineer, "interview", <<>>)
       /\ InFlight(MaxStoreInFlight)
  \/ \E u \in Users, id \in AppIdInputs :
       ApplicationDetailHandleDelete(u, id) /\ InFlight(MaxStoreInFlight)
  \/ \E u \in Users : TasksFetchTasks(u) /\ InFlight(MaxStoreInFlight)
  \/ \E u \in Users, app \in AppIdInputs :
       TasksHandleSubmit(u, Call, app, <<>>, <<>>) /\ InFlight(MaxStoreInFlight)
  \/ \E u \in Users, id \in TaskIdInputs, completed \in BOOLEAN :
       /\ TasksToggleComplete(u, [id |-> id, completed |-> completed])
       /\ InFlight(MaxStoreInFlight)
  \/ \E u \in Users, id \in TaskIdInputs :
       TaskDetailFetchTask(u, id) /\ InFlight(MaxStoreInFlight)
  \/ \E u \in Users, id \in TaskIdInputs, app \in AppIdInputs :
       /\ TaskDetailHandleUpdate(u, id, Call, app, <<>>, FALSE, <<>>)
       /\ InFlight(MaxStoreInFlight)
  \/ \E u \in Users, id \in TaskIdInputs :
       TaskDetailHandleDelete(u, id) /\ InFlight(MaxStoreInFlight)
  \/ \E q \in net : Served(q) /\ WithinBounds
  \/ \E q \in net : RequestOfHandlerFails(q)
  \/ \E q \in net : Resumed(q)

Spec == Init /\ [][Next]_vars

\* The ApplicationDetail pages of the two users on one application, in
\* several tabs: a fetch, an update or a delete of one tab is served, or its
\* response handled, while the request of another is under way.
NextApplicationDetail ==
  \/ \E u \in Users :
       /\ ApplicationsHandleSubmit(u, Acme, Engineer, DefaultStatus, <<>>)
       /\ InFlight(MaxInFlight)
  \/ \E u \in Users, id \in AppIdInputs :
       ApplicationDetailFetchApplication(u, id) /\ InFlight(MaxInFlight)
  \/ \E u \in Users, id \in AppIdInputs :
       /\ ApplicationDetailHandleUpdate(u, id, Acme, Engineer, "interview", <<>>)
       /\ InFlight(MaxInFlight)
  \/ \E u \in Users, id \in AppIdInputs :
       ApplicationDetailHandleDelete(u, id) /\ InFlight(MaxInFlight)
  \/ \E q \in net : Served(q) /\ WithinBounds
  \/ \E q \in net : RequestOfHandlerFails(q)
  \/ \E q \in net : Resumed(q)

SpecApplicationDetail == Init /\ [][NextApplicationDetail]_vars

\* ------------------------------------------------------- application form
\* The application forms with the texts a user may have put in them.
Note == <<"n", "b">>

Blank == <<" ", "\t">>

Padded(s) == <<" ">> \o s \o <<" ", "\n">>

\* useState('applied'): the status the form holds when the user chose none.
FormStatus(choice) == IF choice = Null THEN DefaultStatus ELSE choice[1]

Form(company, position, choice, notes) ==
  [company |-> company, position |-> position, status |-> FormStatus(choice),
   notes |-> notes]

FormInputs ==
  {Form(Acme, Engineer, Null, <<>>),
   Form(Acme, Engineer, Some("interview"), Note),
   Form(Acme, Engineer, Some("nonexistent"), <<>>),
   Form(Padded(Acme), Padded(Engineer), Null, Padded(Note)),
   Form(<<>>, Engineer, Null, <<>>),
   Form(Blank, Engineer, Null, <<>>),
   Form(Acme, <<>>, Null, <<>>),
   Form(Acme, Blank, Null, Note),
   Form(Blank, Blank, Null, <<>>),
   Form(Rep(MaxCompanyLen, "x"), Rep(MaxPositionLen, "y"), Null, Rep(MaxNotesLen, "n")),
   Form(Rep(MaxCompanyLen + 1, "x"), Engineer, Null, <<>>),
   Form(Padded(Rep(MaxCompanyLen, "x")), Engineer, Null, <<>>),
   Form(Acme, Rep(MaxPositionLen + 1, "y"), Null, <<>>),
   Form(Acme, Padded(Rep(MaxPositionLen, "y")), Some("offer"), <<>>),
   Form(Acme, Engineer, Null, Rep(MaxNotesLen + 1, "n")),
   Form(Acme, Engineer, Null, Rep(MaxNotesLen, "n") \o <<" ">>),
   Form(Acme, Engineer, Null, Blank),
   Form(Rep(MaxCompanyLen + 1, "x"), Engineer, Some("nonexistent"), Rep(MaxNotesLen + 1, "n"))}

\* The forms of an update: another status, a status that is not of the enum,
\* and that with texts the schema turns down.
UpdateInputs ==
  {Form(Acme, Engineer, Some("interview"), Note),
   Form(Acme, Engineer, Some("nonexistent"), <<>>),
   Form(Rep(MaxCompanyLen + 1, "x"), Engineer, Some("nonexistent"), Rep(MaxNotesLen + 1, "n"))}

FormAppIds == 1..MaxFormApps

NextForm ==
  \/ \E u \in Users, x \in FormInputs :
       /\ ApplicationsHandleSubmit(u, x.company, x.position, x.status, x.notes)
       /\ InFlight(MaxStoreInFlight)
  \/ \E u \in Users, id \in FormAppIds :
       ApplicationDetailFetchApplication(u, id) /\ InFlight(MaxStoreInFlight)
  \/ \E u \in Users, id \in FormAppIds, x \in UpdateInputs :
       /\ ApplicationDetailHandleUpdate(u, id, x.company, x.position, x.status, x.notes)
       /\ InFlight(MaxStoreInFlight)
  \/ \E q \in net : Served(q) /\ nextAppId' <= MaxFormApps + 1
  \/ \E q \in net : RequestOfHandlerFails(q)
  \/ \E q \in net : Resumed(q)

SpecForm == Init /\ [][NextForm]_vars

\* ------------------------------------------------------------- tasks page
\* The Tasks page of one signed-in user, request by request: a handler runs
\* up to its await, the request is served (or fails) at the storage, and the
\* rest of the handler runs when the response arrives.  net holds the requests
\* under way; hist remembers what the page has asked for.
PageUser == "A"

Request(rid, kind, task) ==
  [rid |-> rid, kind |-> kind, stage |-> "sent", task |-> task, error |-> FALSE,
   data |-> <<>>]

NoTask == [id |-> EmptyId, completed |-> FALSE]

InitTasksPage ==
  /\ applications = {[id |-> 1, user_id |-> PageUser, company |-> Acme,
                      position |-> Engineer, status |-> DefaultStatus, notes |-> Null,
                      created_at |-> 0, updated_at |-> 0]}
  /\ \E done \in [1..MaxPageTasks -> BOOLEAN] :
       /\ tasks = {[id |-> i, application_id |-> 1, user_id |-> PageUser, title |-> Call,
                    due_date |-> Null, completed |-> done[i], notes |-> Null,
                    created_at |-> 0, updated_at |-> 0] : i \in 1..MaxPageTasks}
       /\ hist = [rid |-> 1, mounted |-> FALSE, clicks |-> 0, submits |-> 0,
                  original |-> done,
                  applied |-> [i \in 1..(MaxPageTasks + MaxSubmits) |-> 0]]
  /\ nextAppId = 2
  /\ nextTaskId = MaxPageTasks + 1
  /\ now = 0
  /\ outcome = Outcome("init", "", EmptyId, NoInput, <<>>, "", <<>>, NoEffect)
  /\ view = <<>>
  /\ loading = TRUE
  /\ submitting = FALSE
  /\ net = {}
  /\ session = Session("Authenticated", PageUser)
  /\ persisted = PageUser

\* Tasks.fetchTasks up to its await: setLoading(true) and the select is sent.
\* `others` are the requests that stay under way.
FetchTasksStart(others) ==
  /\ loading' = TRUE
  /\ net' = others \cup {Request(hist.rid, "fetchTasks", NoTask)}

\* useEffect(() => { if (user) fetchTasks() }, [user])
TasksMount ==
  /\ ~hist.mounted
  /\ FetchTasksStart(net)
  /\ hist' = [hist EXCEPT !.mounted = TRUE, !.rid = @ + 1]
  /\ UNCHANGED <<auth, storage, outcome, view, submitting>>

\* The storage answers the select of fetchTasks.
ServeFetchTasks(q) ==
  /\ q.kind = "fetchTasks" /\ q.stage = "sent"
  /\ \E list \in FetchTasksData(PageUser, tasks) :
       net' = (net \ {q}) \cup {[q EXCEPT !.stage = "answered", !.data = list]}
  /\ UNCHANGED <<auth, storage, outcome, view, loading, submitting, hist>>

TasksFetchTasksDoneReturnOnError(q) ==
  /\ q.kind = "fetchTasks" /\ q.stage = "answered"
  /\ IF q.error
       THEN /\ outcome' = Outcome("Tasks.fetchTasks", PageUser, EmptyId, NoInput,
                                  <<"Failed to load tasks">>, "", <<>>, NoEffect)
            /\ UNCHANGED <<view, loading>>
       ELSE /\ view' = q.data
            /\ loading' = FALSE
            /\ UNCHANGED outcome
  /\ net' = net \ {q}
  /\ UNCHANGED <<auth, storage, submitting, hist>>

\* Tasks.fetchTasks after its await.
TasksFetchTasksDone(q) ==
  /\ q.kind = "fetchTasks" /\ q.stage = "answered"
  /\ IF q.error
       THEN /\ outcome' = Outcome("Tasks.fetchTasks", PageUser, EmptyId, NoInput,
                                  <<"Failed to load tasks">>, "", <<>>, NoEffect)
            /\ view' = view
       ELSE /\ view' = q.data
            /\ UNCHANGED outcome
  /\ loading' = FALSE
  /\ net' = net \ {q}
  /\ UNCHANGED <<auth, storage, submitting, hist>>

\* Tasks.toggleComplete(task) up to its await, for the i-th row on display
\* (the rows are on display when the page is not loading).
TasksToggleCompleteStart(i) ==
  /\ ~loading
  /\ i \in DOMAIN view
  /\ hist.clicks < MaxToggles
  /\ net' = net \cup {Request(hist.rid, "toggleComplete",
                              [id |-> view[i].id, completed |-> view[i].completed])}
  /\ hist' = [hist EXCEPT !.clicks = @ + 1, !.rid = @ + 1]
  /\ UNCHANGED <<auth, storage, outcome, view, loading, submitting>>

\* The storage runs the update of toggleComplete.
ServeToggleComplete(q) ==
  /\ q.kind = "toggleComplete" /\ q.stage = "sent"
  /\ LET r == UpdateTask(PageUser, q.task.id, {"completed"},
                         [completed |-> ~q.task.completed])
     IN /\ tasks' = r.tasks
        /\ net' = (net \ {q}) \cup {[q EXCEPT !.stage = "answered", !.error = r.error]}
        /\ hist' = [hist EXCEPT !.applied[q.task.id] = @ + r.count]
  /\ UNCHANGED <<auth, applications, nextAppId, nextTaskId, now, outcome, view, loading,
                 submitting>>

\* Tasks.toggleComplete after its await.
TasksToggleCompleteDone(q) ==
  /\ q.kind = "toggleComplete" /\ q.stage = "answered"
  /\ IF q.error
       THEN /\ outcome' = Outcome("Tasks.toggleComplete", PageUser, q.task.id, q.task,
                                  <<"Failed to update task">>, "", <<>>, NoEffect)
            /\ net' = net \ {q}
            /\ UNCHANGED <<loading, hist>>
       ELSE /\ FetchTasksStart(net \ {q})
            /\ hist' = [hist EXCEPT !.rid = @ + 1]
            /\ UNCHANGED outcome
  /\ UNCHANGED <<auth, storage, view, submitting>>

\* Tasks.handleSubmit up to its await.  The submit button is disabled while
\* submitting, so the form is submitted only when it is not.
TasksHandleSubmitStart(title, applicationId, dueDate, notes) ==
  LET input  == [title |-> title, applicationId |-> applicationId, dueDate |-> dueDate,
                 notes |-> notes]
      issues == taskSchemaIssues(title, notes)
  IN /\ ~submitting
     /\ IF issues # <<>>
          THEN /\ outcome' = Outcome("Tasks.handleSubmit", PageUser, EmptyId, input,
                                     <<issues[1].message>>, "", <<>>, NoEffect)
               /\ UNCHANGED <<submitting, net, hist>>
        ELSE IF applicationId = EmptyId
          THEN /\ outcome' = Outcome("Tasks.handleSubmit", PageUser, EmptyId, input,
                                     <<"Please select an application">>, "", <<>>,
                                     NoEffect)
               /\ UNCHANGED <<submitting, net, hist>>
        ELSE /\ hist.submits < MaxSubmits
             /\ submitting' = TRUE
             /\ net' = net \cup
                   {Request(hist.rid, "handleSubmit",
                            [user_id |-> PageUser, application_id |-> applicationId,
                             title |-> Trim(title),
                             due_date |-> IF dueDate = <<>> THEN Null ELSE dueDate,
                             notes |-> OrNull(Trim(notes))])}
             /\ hist' = [hist EXCEPT !.submits = @ + 1, !.rid = @ + 1]
             /\ UNCHANGED outcome
     /\ UNCHANGED <<auth, storage, view, loading>>

\* The storage runs the insert of handleSubmit.
ServeInsertTask(q) ==
  /\ q.kind = "handleSubmit" /\ q.stage = "sent"
  /\ LET r == InsertTask(PageUser, q.task)
     IN /\ tasks' = r.tasks
        /\ nextTaskId' = IF r.error THEN nextTaskId ELSE nextTaskId + 1
        /\ net' = (net \ {q}) \cup {[q EXCEPT !.stage = "answered", !.error = r.error]}
  /\ UNCHANGED <<auth, applications, nextAppId, now, outcome, view, loading, submitting,
                 hist>>

\* Tasks.handleSubmit after its await.
TasksHandleSubmitDone(q) ==
  /\ q.kind = "handleSubmit" /\ q.stage = "answered"
  /\ IF q.error
       THEN /\ outcome' = Outcome("Tasks.handleSubmit", PageUser, EmptyId, q.task,
                                  <<"Failed to create task">>, "", <<>>, NoEffect)
            /\ net' = net \ {q}
            /\ UNCHANGED <<loading, hist>>
       ELSE /\ outcome' = Outcome("Tasks.handleSubmit", PageUser, EmptyId, q.task,
                                  <<"Task created successfully">>, "", <<>>,
                                  Effect(1, 0))
            /\ FetchTasksStart(net \ {q})
            /\ hist' = [hist EXCEPT !.rid = @ + 1]
  /\ submitting' = FALSE
  /\ UNCHANGED <<auth, storage, view>>

\* A request fails on the way: the storage is not touched, the client gets an
\* error.
RequestFails(q) ==
  /\ q.stage = "sent"
  /\ net' = (net \ {q}) \cup {[q EXCEPT !.stage = "answered", !.error = TRUE]}
  /\ UNCHANGED <<auth, storage, outcome, view, loading, submitting, hist>>

NextTasksPage ==
  \/ TasksMount
  \/ \E q \in net : ServeFetchTasks(q)
  \/ \E q \in net : TasksFetchTasksDone(q)
  \/ \E i \in 1..MaxPageTasks : TasksToggleCompleteStart(i)
  \/ \E q \in net : ServeToggleComplete(q)
  \/ \E q \in net : TasksToggleCompleteDone(q)
  \/ \E q \in net : RequestFails(q)

SpecTasksPage == InitTasksPage /\ [][NextTasksPage]_vars

\* The Tasks page when no request fails: toggles, creates and the re-fetches
\* they start, with the responses arriving in any order.
NextTasksPageOrder ==
  \/ TasksMount
  \/ \E q \in net : ServeFetchTasks(q)
  \/ \E q \in net : TasksFetchTasksDone(q)
  \/ \E i \in 1..(MaxPageTasks + MaxSubmits) : TasksToggleCompleteStart(i)
  \/ \E q \in net : ServeToggleComplete(q)
  \/ \E q \in net : TasksToggleCompleteDone(q)
  \/ TasksHandleSubmitStart(Call, 1, <<>>, <<>>)
  \/ \E q \in net : ServeInsertTask(q)
  \/ \E q \in net : TasksHandleSubmitDone(q)

SpecTasksPageOrder == InitTasksPage /\ [][NextTasksPageOrder]_vars

\* ------------------------------------------------------------------ lists
\* The Applications page: two users create applications at different times
\* and list them.
NextApplicationsList ==
  \/ Tick
  \/ \E u \in Users :
       /\ ApplicationsHandleSubmit(u, Acme, Engineer, DefaultStatus, <<>>)
       /\ InFlight(MaxInFlight)
  \/ \E u \in Users : ApplicationsFetchApplications(u) /\ InFlight(MaxInFlight)
  \/ \E q \in net : Served(q) /\ nextAppId' <= MaxListApps + 1
  \/ \E q \in net : RequestOfHandlerFails(q)
  \/ \E q \in net : Resumed(q)

SpecApplicationsList == Init /\ [][NextApplicationsList]_vars

\* The Tasks page: each of the two users has one application and creates
\* tasks for it, at different times and with different due dates, and lists
\* them.
DueInputs == {<<>>, <<1>>, <<2>>}

OwnApplication(u) == IF u = "A" THEN 1 ELSE 2

InitTasksList ==
  /\ applications = {[id |-> OwnApplication(u), user_id |-> u, company |-> Acme,
                      position |-> Engineer, status |-> DefaultStatus, notes |-> Null,
                      created_at |-> 0, updated_at |-> 0] : u \in Users}
  /\ tasks = {}
  /\ nextAppId = 3
  /\ nextTaskId = 1
  /\ now = 0
  /\ outcome = Outcome("init", "", EmptyId, NoInput, <<>>, "", <<>>, NoEffect)
  /\ view = <<>>
  /\ loading = TRUE
  /\ submitting = FALSE
  /\ net = {}
  /\ hist = <<>>
  /\ session = Session("Loading", NoUser)
  /\ persisted = NoUser

NextTasksList ==
  \/ Tick
  \/ \E u \in Users, due \in DueInputs :
       /\ TasksHandleSubmit(u, Call, OwnApplication(u), due, <<>>)
       /\ InFlight(MaxStoreInFlight)
  \/ \E u \in Users : TasksFetchTasks(u) /\ InFlight(MaxStoreInFlight)
  \/ \E q \in net : Served(q) /\ nextTaskId' <= MaxListTasks + 1
  \/ \E q \in net : RequestOfHandlerFails(q)
  \/ \E q \in net : Resumed(q)

SpecTasksList == InitTasksList /\ [][NextTasksList]_vars

\* ------------------------------------------------- session and Applications
\* One client from its start: the session is restored, the user signs in and
\* out, the session expires; the Applications page, inside ProtectedRoute,
\* sends its requests and handles the responses when they arrive.  A request
\* carries the token of the session at the time it is sent: uid is that
\* session's user, or none.  hist remembers the user the effect of the page
\* last ran for and the number of submits.
SessionRequest(rid, kind, uid, vals) ==
  [rid |-> rid, kind |-> kind, stage |-> "sent", uid |-> uid, vals |-> vals,
   error |-> FALSE, data |-> <<>>]

InitSession ==
  /\ applications = {}
  /\ tasks = {}
  /\ nextAppId = 1
  /\ nextTaskId = 1
  /\ now = 0
  /\ outcome = Outcome("init", "", EmptyId, NoInput, <<>>, "", <<>>, NoEffect)
  /\ view = <<>>
  /\ loading = TRUE
  /\ submitting = FALSE
  /\ net = {}
  /\ hist = [effectUser |-> NoUser, submits |-> 0]
  /\ session = Session("Loading", NoUser)
  /\ persisted \in {NoUser, PageUser}

\* Applications.fetchApplications up to its await; `others` are the requests
\* that stay under way.
FetchApplicationsStart(others) ==
  /\ loading' = TRUE
  /\ net' = others \cup {SessionRequest(FreshRid(others), "fetchApplications",
                                         session.user, NoInput)}

\* useEffect(() => { if (user) fetchApplications() }, [user])
ApplicationsEffect ==
  /\ hist.effectUser # session.user
  /\ hist' = [hist EXCEPT !.effectUser = session.user]
  /\ IF session.user # NoUser
       THEN FetchApplicationsStart(net)
       ELSE UNCHANGED <<loading, net>>
  /\ UNCHANGED <<storage, auth, outcome, view, submitting>>

\* Applications.handleSubmit up to its await.  The submit button is disabled
\* while submitting, so the form is submitted only when it is not.
ApplicationsHandleSubmitStart(company, position, status, notes) ==
  LET input  == [company |-> company, position |-> position, status |-> status,
                 notes |-> notes]
      issues == applicationSchemaIssues(company, position, notes)
  IN /\ ProtectedRoute
     /\ ~submitting
     /\ IF issues # <<>>
          THEN /\ outcome' = Outcome("Applications.handleSubmit", session.user, EmptyId,
                                     input, <<issues[1].message>>, "", <<>>, NoEffect)
               /\ UNCHANGED <<submitting, net, hist>>
          ELSE /\ hist.submits < MaxSubmits
               /\ submitting' = TRUE
               /\ net' = net \cup
                     {SessionRequest(FreshRid(net), "handleSubmit", session.user,
                                     [user_id |-> session.user, company |-> Trim(company),
                                      position |-> Trim(position), status |-> status,
                                      notes |-> OrNull(Trim(notes))])}
               /\ hist' = [hist EXCEPT !.submits = @ + 1]
               /\ UNCHANGED outcome
     /\ UNCHANGED <<storage, auth, view, loading>>

\* The storage runs the insert of handleSubmit.
ServeInsertApplication(q) ==
  /\ q.kind = "handleSubmit" /\ q.stage = "sent"
  /\ LET r == InsertApplication(q.uid, q.vals)
     IN /\ applications' = r.apps
        /\ nextAppId' = IF r.error THEN nextAppId ELSE nextAppId + 1
        /\ net' = (net \ {q}) \cup {[q EXCEPT !.stage = "answered", !.error = r.error]}
  /\ UNCHANGED <<tasks, nextTaskId, now, auth, outcome, view, loading, submitting, hist>>

ApplicationsHandleSubmitDoneOnSuccess(q) ==
  /\ q.kind = "handleSubmit" /\ q.stage = "answered"
  /\ IF q.error
       THEN /\ outcome' = Outcome("Applications.handleSubmit", session.user, EmptyId,
                                  q.vals, <<"Failed to create application">>, "", <<>>,
                                  NoEffect)
            /\ net' = net \ {q}
            /\ UNCHANGED <<loading, submitting>>
       ELSE /\ outcome' = Outcome("Applications.handleSubmit", session.user, EmptyId,
                                  q.vals, <<"Application created successfully">>, "",
                                  <<>>, Effect(1, 0))
            /\ FetchApplicationsStart(net \ {q})
            /\ submitting' = FALSE
  /\ UNCHANGED <<storage, auth, view, hist>>

\* Applications.handleSubmit after its await.
ApplicationsHandleSubmitDone(q) ==
  /\ q.kind = "handleSubmit" /\ q.stage = "answered"
  /\ IF q.error
       THEN /\ outcome' = Outcome("Applications.handleSubmit", session.user, EmptyId,
                                  q.vals, <<"Failed to create application">>, "", <<>>,
                                  NoEffect)
            /\ net' = net \ {q}
            /\ UNCHANGED loading
       ELSE /\ outcome' = Outcome("Applications.handleSubmit", session.user, EmptyId,
                                  q.vals, <<"Application created successfully">>, "",
                                  <<>>, Effect(1, 0))
            /\ FetchApplicationsStart(net \ {q})
  /\ submitting' = FALSE
  /\ UNCHANGED <<storage, auth, view, hist>>

\* The storage answers the select of fetchApplications.
ServeFetchApplications(q) ==
  /\ q.kind = "fetchApplications" /\ q.stage = "sent"
  /\ \E list \in FetchApplicationsData(q.uid, applications) :
       net' = (net \ {q}) \cup {[q EXCEPT !.stage = "answered", !.data = list]}
  /\ UNCHANGED <<storage, auth, outcome, view, loading, submitting, hist>>

\* Applications.fetchApplications after its await.
ApplicationsFetchApplicationsDone(q) ==
  /\ q.kind = "fetchApplications" /\ q.stage = "answered"
  /\ IF q.error
       THEN /\ outcome' = Outcome("Applications.fetchApplications", session.user,
                                  EmptyId, NoInput, <<"Failed to load applications">>,
                                  "", <<>>, NoEffect)
            /\ view' = view
       ELSE /\ view' = q.data
            /\ UNCHANGED outcome
  /\ loading' = FALSE
  /\ net' = net \ {q}
  /\ UNCHANGED <<storage, auth, submitting, hist>>

\* A request fails on the way: the storage is not touched, the client gets an
\* error.
SessionRequestFails(q) ==
  /\ q.stage = "sent"
  /\ net' = (net \ {q}) \cup {[q EXCEPT !.stage = "answered", !.error = TRUE]}
  /\ UNCHANGED <<storage, auth, outcome, view, loading, submitting, hist>>

NextSession ==
  \/ RestoreOnStart
  \/ \E valid \in BOOLEAN : SignIn(PageUser, valid)
  \/ SignOut
  \/ SessionExpired
  \/ ApplicationsEffect /\ Cardinality(net') <= MaxInFlight
  \/ ApplicationsHandleSubmitStart(Acme, Engineer, DefaultStatus, <<>>)
  \/ \E q \in net : ServeInsertApplication(q)
  \/ \E q \in net : ApplicationsHandleSubmitDone(q)
  \/ \E q \in net : ServeFetchApplications(q)
  \/ \E q \in net : ApplicationsFetchApplicationsDone(q)
  \/ \E q \in net : SessionRequestFails(q)

SpecSession == InitSession /\ [][NextSession]_vars

\* ------------------------------------------------------------- timestamps
\* Rows that exist already are updated and toggled while the clock moves on:
\* one application of user A with its tasks, both users calling.
InitTimestamps ==
  /\ applications = {[id |-> 1, user_id |-> "A", company |-> Acme,
                      position |-> Engineer, status |-> DefaultStatus, notes |-> Null,
                      created_at |-> 0, updated_at |-> 0]}
  /\ tasks = {[id |-> i, application_id |-> 1, user_id |-> "A", title |-> Call,
               due_date |-> Null, completed |-> FALSE, notes |-> Null,
               created_at |-> 0, updated_at |-> 0] : i \in 1..MaxStampTasks}
  /\ nextAppId = 2
  /\ nextTaskId = MaxStampTasks + 1
  /\ now = 0
  /\ outcome = Outcome("init", "", EmptyId, NoInput, <<>>, "", <<>>, NoEffect)
  /\ view = <<>>
  /\ loading = TRUE
  /\ submitting = FALSE
  /\ net = {}
  /\ hist = <<>>
  /\ session = Session("Loading", NoUser)
  /\ persisted = NoUser

NextTimestamps ==
  \/ Tick
  \/ \E u \in Users :
       /\ ApplicationDetailHandleUpdate(u, 1, Acme, Engineer, "interview", <<>>)
       /\ InFlight(MaxStoreInFlight)
  \/ \E u \in Users, id \in 1..MaxStampTasks :
       /\ TaskDetailHandleUpdate(u, id, Call, 1, <<>>, TRUE, <<>>)
       /\ InFlight(MaxStoreInFlight)
  \/ \E u \in Users, id \in 1..MaxStampTasks, completed \in BOOLEAN :
       /\ TasksToggleComplete(u, [id |-> id, completed |-> completed])
       /\ InFlight(MaxStoreInFlight)
  \/ \E q \in net : Served(q)
  \/ \E q \in net : RequestOfHandlerFails(q)
  \/ \E q \in net : Resumed(q)

SpecTimestamps == InitTimestamps /\ [][NextTimestamps]_vars

\* ------------------------------------------------------------ task edits
\* Each user has one application; the tasks that exist belong to either user
\* and carry a due date and notes.  Both users toggle and delete tasks.
InitTaskEdits ==
  /\ applications = {[id |-> OwnApplication(u), user_id |-> u, company |-> Acme,
                      position |-> Engineer, status |-> DefaultStatus, notes |-> Null,
                      created_at |-> 0, updated_at |-> 0] : u \in Users}
  /\ \E owner \in [1..MaxEditTasks -> Users] :
       tasks = {[id |-> i, application_id |-> OwnApplication(owner[i]),
                 user_id |-> owner[i], title |-> Call, due_date |-> Some(i),
                 completed |-> FALSE, notes |-> Some(Note),
                 created_at |-> 0, updated_at |-> 0] : i \in 1..MaxEditTasks}
  /\ nextAppId = 3
  /\ nextTaskId = MaxEditTasks + 1
  /\ now = 1
  /\ outcome = Outcome("init", "", EmptyId, NoInput, <<>>, "", <<>>, NoEffect)
  /\ view = <<>>
  /\ loading = TRUE
  /\ submitting = FALSE
  /\ net = {}
  /\ hist = <<>>
  /\ session = Session("Loading", NoUser)
  /\ persisted = NoUser

NextTaskEdits ==
  \/ \E u \in Users, id \in 1..MaxEditTasks, completed \in BOOLEAN :
       /\ TasksToggleComplete(u, [id |-> id, completed |-> completed])
       /\ InFlight(MaxStoreInFlight)
  \/ \E u \in Users, id \in 1..MaxEditTasks :
       TaskDetailHandleDelete(u, id) /\ InFlight(MaxStoreInFlight)
  \/ \E q \in net : Served(q)
  \/ \E q \in net : RequestOfHandlerFails(q)
  \/ \E q \in net : Resumed(q)

SpecTaskEdits == InitTaskEdits /\ [][NextTaskEdits]_vars

\* --------------------------------------------------------------- cascade
\* Two tabs per user while applications are deleted: application 1 of user A
\* with MaxCascadeTasks tasks, application 2 of user B with one task.  The
\* users delete applications, load the task list and single tasks and create
\* tasks under application 1, with two requests under way at once, so that
\* reads and inserts are called and served before, between and after the
\* call, the serving and the response of a delete.
InitCascade ==
  /\ applications = {[id |-> OwnApplication(u), user_id |-> u, company |-> Acme,
                      position |-> Engineer, status |-> DefaultStatus, notes |-> Null,
                      created_at |-> 0, updated_at |-> 0] : u \in Users}
  /\ tasks = {[id |-> i, application_id |-> OwnApplication("A"), user_id |-> "A",
               title |-> Call, due_date |-> Null, completed |-> FALSE, notes |-> Null,
               created_at |-> 0, updated_at |-> 0] : i \in 1..MaxCascadeTasks}
             \cup {[id |-> MaxCascadeTasks + 1, application_id |-> OwnApplication("B"),
                    user_id |-> "B", title |-> Call, due_date |-> Null,
                    completed |-> FALSE, notes |-> Null, created_at |-> 0,
                    updated_at |-> 0]}
  /\ nextAppId = 3
  /\ nextTaskId = MaxCascadeTasks + 2
  /\ now = 1
  /\ outcome = Outcome("init", "", EmptyId, NoInput, <<>>, "", <<>>, NoEffect)
  /\ view = <<>>
  /\ loading = TRUE
  /\ submitting = FALSE
  /\ net = {}
  /\ hist = <<>>
  /\ session = Session("Loading", NoUser)
  /\ persisted = NoUser

NextCascade ==
  \/ \E u \in Users, id \in {OwnApplication(o) : o \in Users} :
       ApplicationDetailHandleDelete(u, id) /\ InFlight(MaxInFlight)
  \/ \E u \in Users : TasksFetchTasks(u) /\ InFlight(MaxInFlight)
  \/ \E u \in Users, id \in 1..MaxCascadeTasks :
       TaskDetailFetchTask(u, id) /\ InFlight(MaxInFlight)
  \/ \E u \in Users :
       /\ TasksHandleSubmit(u, Call, OwnApplication("A"), <<>>, <<>>)
       /\ InFlight(MaxInFlight)
  \/ \E q \in net : Served(q) /\ nextTaskId' <= MaxCascadeTasks + 3
  \/ \E q \in net : RequestOfHandlerFails(q)
  \/ \E q \in net : Resumed(q)

SpecCascade == InitCascade /\ [][NextCascade]_vars

\* ------------------------------------------------------------- validation
\* One user puts the same texts into the forms that create and into the forms
\* that update, of applications and of tasks.
TaskFormInput(title, notes, applicationId) ==
  [title |-> title, notes |-> notes, applicationId |-> applicationId]

TaskFormInputs ==
  {TaskFormInput(Padded(Call), Padded(Note), 1),
   TaskFormInput(Padded(Rep(MaxTitleLen, "t")), Rep(MaxNotesLen, "n"), 1),
   TaskFormInput(Blank, Rep(MaxNotesLen + 1, "n"), EmptyId),
   TaskFormInput(Rep(MaxTitleLen + 1, "t"), Rep(MaxNotesLen + 1, "n"), EmptyId),
   TaskFormInput(Call, Rep(MaxNotesLen + 1, "n"), EmptyId),
   TaskFormInput(Call, Note, EmptyId)}

ApplicationFormInputs ==
  {Form(Padded(Acme), Padded(Engineer), Null, Padded(Note)),
   Form(Padded(Rep(MaxCompanyLen, "x")), Padded(Rep(MaxPositionLen, "y")), Null,
        Rep(MaxNotesLen, "n")),
   Form(Blank, Blank, Null, Rep(MaxNotesLen + 1, "n")),
   Form(Rep(MaxCompanyLen + 1, "x"), <<>>, Null, <<>>),
   Form(Acme, Blank, Null, Rep(MaxNotesLen + 1, "n")),
   Form(Acme, Rep(MaxPositionLen + 1, "y"), Null, Rep(MaxNotesLen + 1, "n")),
   Form(Acme, Engineer, Null, Rep(MaxNotesLen + 1, "n"))}

NextValidation ==
  \/ \E x \in ApplicationFormInputs :
       /\ ApplicationsHandleSubmit(PageUser, x.company, x.position, x.status, x.notes)
       /\ InFlight(MaxStoreInFlight)
  \/ \E id \in FormAppIds, x \in ApplicationFormInputs :
       /\ ApplicationDetailHandleUpdate(PageUser, id, x.company, x.position, x.status,
                                        x.notes)
       /\ InFlight(MaxStoreInFlight)
  \/ \E x \in TaskFormInputs :
       /\ TasksHandleSubmit(PageUser, x.title, x.applicationId, <<>>, x.notes)
       /\ InFlight(MaxStoreInFlight)
  \/ \E id \in 1..MaxFormTasks, x \in TaskFormInputs :
       /\ TaskDetailHandleUpdate(PageUser, id, x.title, x.applicationId, <<>>, FALSE,
                                 x.notes)
       /\ InFlight(MaxStoreInFlight)
  \/ \E q \in net :
       Served(q) /\ nextAppId' <= MaxFormApps + 1 /\ nextTaskId' <= MaxFormTasks + 1
  \/ \E q \in net : RequestOfHandlerFails(q)
  \/ \E q \in net : Resumed(q)

SpecValidation == Init /\ [][NextValidation]_vars

\* -------------------------------------------------------------- dashboard
\* The Dashboard of one signed-in user: fetchStats sends four count queries
\* at once and sets the statistics when all four have answered.  Each query
\* is served on its own, so the user's writes (from another page or tab) can
\* come between them.  A served query remembers the table it counted.
CountQueries == {"totalApplications", "totalTasks", "pendingTasks", "interviewStage"}

CountRequest(rid, what) ==
  [rid |-> rid, kind |-> what, stage |-> "sent", error |-> FALSE, count |-> Null,
   seen |-> {}]

\* The table a count query reads.
CountTable(what) ==
  IF what \in {"totalTasks", "pendingTasks"} THEN tasks ELSE applications

\* select("id", { count: "exact", head: true }) with the query's filter.
CountRows(uid, what) ==
  CASE what = "totalApplications" -> Cardinality(SelectApplications(uid))
    [] what = "totalTasks"        -> Cardinality(SelectTasks(uid))
    [] what = "pendingTasks"      ->
         Cardinality({t \in SelectTasks(uid) : t.completed = FALSE})
    [] what = "interviewStage"    ->
         Cardinality({a \in SelectApplications(uid) : a.status = "interview"})

Stats(totalApplications, totalTasks, pendingTasks, interviewStage) ==
  [totalApplications |-> totalApplications, totalTasks |-> totalTasks,
   pendingTasks |-> pendingTasks, interviewStage |-> interviewStage]

InitDashboard ==
  /\ \E status \in {DefaultStatus, "interview"} :
       applications = {[id |-> OwnApplication(u), user_id |-> u, company |-> Acme,
                        position |-> Engineer,
                        status |-> IF u = PageUser THEN status ELSE "interview",
                        notes |-> Null, created_at |-> 0, updated_at |-> 0] : u \in Users}
  /\ \E own \in SUBSET {PageUser} :
       tasks = {[id |-> IF u = PageUser THEN 1 ELSE 2,
                 application_id |-> OwnApplication(u), user_id |-> u,
                 title |-> Call, due_date |-> Null, completed |-> FALSE, notes |-> Null,
                 created_at |-> 0, updated_at |-> 0] : u \in (Users \ {PageUser}) \cup own}
  /\ nextAppId = 3
  /\ nextTaskId = 3
  /\ now = 0
  /\ outcome = Outcome("init", "", EmptyId, NoInput, <<>>, "", <<>>, NoEffect)
  /\ view = Stats(0, 0, 0, 0)
  /\ loading = FALSE
  /\ submitting = FALSE
  /\ net = {}
  /\ hist = [rid |-> 1, mounted |-> FALSE]
  /\ session = Session("Authenticated", PageUser)
  /\ persisted = PageUser

\* useEffect(() => { if (user) fetchStats() }, [user]), and fetchStats up to
\* its await: the four queries are sent together.
DashboardFetchStatsStart ==
  /\ ~hist.mounted
  /\ net' = net \cup {CountRequest(hist.rid, what) : what \in CountQueries}
  /\ hist' = [hist EXCEPT !.mounted = TRUE, !.rid = @ + 1]
  /\ UNCHANGED <<auth, storage, outcome, view, loading, submitting>>

\* The storage answers one count query.
ServeCount(q) ==
  /\ q.kind \in CountQueries /\ q.stage = "sent"
  /\ net' = (net \ {q}) \cup
              {[q EXCEPT !.stage = "answered",
                         !.count = Some(CountRows(PageUser, q.kind)),
                         !.seen = CountTable(q.kind)]}
  /\ UNCHANGED <<auth, storage, outcome, view, loading, submitting, hist>>

\* fetchStats after its await: Promise.all has all four results; a failed
\* query has count null, shown as 0.
DashboardFetchStatsDone ==
  LET results     == {q \in net : q.kind \in CountQueries}
      result(what) == CHOOSE q \in results : q.kind = what
      count(what)  == IF result(what).count = Null THEN 0 ELSE result(what).count[1]
      stats        == Stats(count("totalApplications"), count("totalTasks"),
                            count("pendingTasks"), count("interviewStage"))
  IN /\ results # {}
     /\ \A q \in results : q.stage = "answered"
     /\ view' = stats
     /\ outcome' = Outcome("Dashboard.fetchStats", PageUser, EmptyId, results, <<>>,
                           "", stats, NoEffect)
     /\ net' = net \ results
     /\ UNCHANGED <<auth, storage, loading, submitting, hist>>

\* The user's other pages are used once the clock has moved on since a row
\* was last written, with no more than n of their own requests under way.
OtherPagesInFlight(n) ==
  /\ \A row \in applications \cup tasks : row.updated_at < now
  /\ Cardinality({q \in net' : q.kind \notin CountQueries}) <= n

NextDashboard ==
  \/ DashboardFetchStatsStart
  \/ Tick
  \/ \E q \in net : ServeCount(q)
  \/ \E q \in net : q.kind \in CountQueries /\ RequestFails(q)
  \/ DashboardFetchStatsDone
  \/ /\ ApplicationsHandleSubmit(PageUser, Acme, Engineer, DefaultStatus, <<>>)
     /\ OtherPagesInFlight(MaxStoreInFlight)
  \/ \E a \in SelectApplications(PageUser), status \in {DefaultStatus, "interview"} :
       /\ ApplicationDetailHandleUpdate(PageUser, a.id, Acme, Engineer, status, <<>>)
       /\ OtherPagesInFlight(MaxStoreInFlight)
  \/ \E a \in SelectApplications(PageUser) :
       /\ ApplicationDetailHandleDelete(PageUser, a.id)
       /\ OtherPagesInFlight(MaxStoreInFlight)
  \/ \E a \in SelectApplications(PageUser) :
       /\ TasksHandleSubmit(PageUser, Call, a.id, <<>>, <<>>)
       /\ OtherPagesInFlight(MaxStoreInFlight)
  \/ \E t \in SelectTasks(PageUser) :
       /\ TasksToggleComplete(PageUser, [id |-> t.id, completed |-> t.completed])
       /\ OtherPagesInFlight(MaxStoreInFlight)
  \/ \E t \in SelectTasks(PageUser) :
       /\ TaskDetailHandleUpdate(PageUser, t.id, Call, t.application_id, <<>>,
                                 ~t.completed, <<>>)
       /\ OtherPagesInFlight(MaxStoreInFlight)
  \/ \E t \in SelectTasks(PageUser) :
       TaskDetailHandleDelete(PageUser, t.id) /\ OtherPagesInFlight(MaxStoreInFlight)
  \/ \E q \in net :
       /\ Served(q)
       /\ nextTaskId' <= MaxStatTasks + 3
       /\ nextAppId' <= MaxStatApps + 3
  \/ \E q \in net : RequestOfHandlerFails(q)
  \/ \E q \in net : Resumed(q)

SpecDashboard == InitDashboard /\ [][NextDashboard]_vars

\* ------------------------------------------------------- the two list pages
\* The Applications page or the Tasks page of one signed-in user, request by
\* request: the list fetches, the create form with valid and invalid values,
\* and requests that fail.
Pages == {"Applications", "Tasks"}

InitPages ==
  /\ applications = {[id |-> 1, user_id |-> PageUser, company |-> Acme,
                      position |-> Engineer, status |-> DefaultStatus, notes |-> Null,
                      created_at |-> 0, updated_at |-> 0]}
  /\ tasks = {}
  /\ nextAppId = 2
  /\ nextTaskId = 1
  /\ now = 0
  /\ outcome = Outcome("init", "", EmptyId, NoInput, <<>>, "", <<>>, NoEffect)
  /\ view = <<>>
  /\ loading = TRUE
  /\ submitting = FALSE
  /\ net = {}
  /\ \E p \in Pages :
       hist = [page |-> p, effectUser |-> NoUser, rid |-> 1, mounted |-> FALSE,
               submits |-> 0]
  /\ session = Session("Authenticated", PageUser)
  /\ persisted = PageUser

NextPages ==
  \/ hist.page = "Applications" /\ ApplicationsEffect
  \/ /\ hist.page = "Applications"
     /\ \E company \in {Acme, Blank} :
          ApplicationsHandleSubmitStart(company, Engineer, DefaultStatus, <<>>)
  \/ hist.page = "Applications" /\ \E q \in net : ServeInsertApplication(q)
  \/ hist.page = "Applications" /\ \E q \in net : ApplicationsHandleSubmitDone(q)
  \/ hist.page = "Applications" /\ \E q \in net : ServeFetchApplications(q)
  \/ hist.page = "Applications" /\ \E q \in net : ApplicationsFetchApplicationsDone(q)
  \/ hist.page = "Applications" /\ \E q \in net : SessionRequestFails(q)
  \/ hist.page = "Tasks" /\ TasksMount
  \/ hist.page = "Tasks" /\ \E q \in net : ServeFetchTasks(q)
  \/ hist.page = "Tasks" /\ \E q \in net : TasksFetchTasksDone(q)
  \/ /\ hist.page = "Tasks"
     /\ \E title \in {Call, Blank}, applicationId \in {EmptyId, 1} :
          TasksHandleSubmitStart(title, applicationId, <<>>, <<>>)
  \/ hist.page = "Tasks" /\ \E q \in net : ServeInsertTask(q)
  \/ hist.page = "Tasks" /\ \E q \in net : TasksHandleSubmitDone(q)
  \/ hist.page = "Tasks" /\ \E q \in net : RequestFails(q)

SpecPages == InitPages /\ [][NextPages]_vars

\* ------------------------------------------------------------------ claims
OwnerOfApplication(id) == {a.user_id : a \in {x \in applications : x.id = id}}

RowsOf(u) == <<{a \in applications : a.user_id = u}, {t \in tasks : t.user_id = u}>>

SuccessToasts ==
  {"Application created successfully", "Application updated successfully",
   "Application deleted successfully", "Task created successfully",
   "Task updated successfully", "Task deleted successfully"}

FailureToasts ==
  {"Failed to load application", "Failed to create application",
   "Failed to update application", "Failed to delete application",
   "Failed to load task", "Failed to create task", "Failed to update task",
   "Failed to delete task"}

ValidationToasts ==
  {"Company name is required", "Position is required", "Title is required",
   "String must contain at most 100 character(s)",
   "String must contain at most 200 character(s)",
   "String must contain at most 1000 character(s)", "Please select an application"}

\* The statement of request q runs at the storage in this step, and r is the
\* response to it.
ServedAs(q, r) ==
  /\ q \in net /\ q.stage = "sent"
  /\ r \in net' /\ r.rid = q.rid /\ r.kind = q.kind
  /\ r.stage = "answered" /\ ~r.effect.failed

\* The handler of the answered request q runs on in this step.
ResumedOn(q) == q \in net /\ q.stage = "answered" /\ q \notin net'

\* No statement runs at the storage in this step.
NothingServed == \A q \in net, r \in net' : ~ServedAs(q, r)

\* C1: Create-Task with an applicationId that refers to an application owned
\* by another user fails (a failure is reported) and stores no task.
C1_CreateTaskForeignParentFails ==
  (/\ outcome.op = "Tasks.handleSubmit"
   /\ \E o \in OwnerOfApplication(outcome.input.applicationId) : o # outcome.caller)
  => /\ outcome.toasts # <<>>
     /\ outcome.toasts[1] \in FailureToasts
     /\ outcome.effect.rows = 0
     /\ \A t \in tasks : ~(t.user_id = outcome.caller
                           /\ t.application_id = outcome.input.applicationId)

\* C2: in every reachable state every stored task is owned by the owner of
\* the application its application_id references.
C2_TaskOwnerIsParentOwner ==
  \A t \in tasks : \A o \in OwnerOfApplication(t.application_id) : o = t.user_id

\* C3: a call by one user leaves the rows of every other user as they were
\* (cascade included) when its statement runs at the storage, no other step
\* changes a row, and the call puts on the caller's page only rows the caller
\* owns.
C3_OtherUsersRowsUntouched ==
  [][/\ \A q \in net, r \in net' :
          ServedAs(q, r)
          => /\ \A u \in Users : u # q.uid => RowsOf(u)' = RowsOf(u)
             /\ \A i \in DOMAIN r.data : r.data[i].user_id = q.uid
     /\ NothingServed => (applications' = applications /\ tasks' = tasks)
     /\ \A i \in DOMAIN outcome'.data : outcome'.data[i].user_id = outcome'.caller]_vars

\* The tasks that reference application id.
TasksOf(id) == {t \in tasks : t.application_id = id}

\* C4: no reachable state holds a task whose application_id names an
\* application that is not stored.  The statement of a Delete-Application
\* that removes the application removes, in that one step, every task that
\* references it and no other row, however many they are and whoever owns
\* them, so that no task references the id afterwards; a delete that removes
\* no application removes no task.  A read served before, between or after
\* the steps of a delete returns the caller's stored tasks of that moment:
\* every row references an application stored at that moment, and carries
\* its application when the caller owns it.
C4_NoTaskWithoutApplication ==
  /\ \A t \in tasks : \E a \in applications : a.id = t.application_id
  /\ [][/\ \A t \in tasks' : \E a \in applications' : a.id = t.application_id
        /\ \A q \in net, r \in net' :
             (ServedAs(q, r) /\ q.kind = "ApplicationDetail.handleDelete")
             => IF r.effect.rows = 1
                  THEN /\ q.id \notin {a.id : a \in applications'}
                       /\ tasks' = tasks \ TasksOf(q.id)
                       /\ r.effect.cascaded = Cardinality(TasksOf(q.id))
                  ELSE /\ applications' = applications
                       /\ tasks' = tasks
                       /\ r.effect.cascaded = 0
        /\ \A q \in net' :
             (/\ q.kind = "ApplicationDetail.handleDelete"
              /\ q.stage = "answered"
              /\ q.effect.rows = 1)
             => \A t \in tasks' : t.application_id # q.id
        /\ (outcome'.op = "ApplicationDetail.handleDelete" /\ outcome'.effect.rows = 1)
             => \A t \in tasks' : t.application_id # outcome'.id
        /\ \A q \in net, r \in net' :
             (ServedAs(q, r) /\ q.kind = "Tasks.fetchTasks")
             => /\ {r.data[i].id : i \in DOMAIN r.data}
                     = {t.id : t \in {x \in tasks : x.user_id = q.uid}}
                /\ \A i \in DOMAIN r.data :
                     /\ \E a \in applications : a.id = r.data[i].application_id
                     /\ q.uid \in OwnerOfApplication(r.data[i].application_id)
                        => r.data[i].applications # Null
        /\ \A q \in net, r \in net' :
             (ServedAs(q, r) /\ q.kind = "TaskDetail.fetchTask")
             => \A i \in DOMAIN r.data :
                  /\ r.data[i] \in tasks
                  /\ \E a \in applications : a.id = r.data[i].application_id]_vars

\* A delete has removed an application together with its tasks, two or more,
\* while the same user's list of tasks, served before the delete with those
\* tasks, waits to be shown.
C4_Witness ==
  \E d \in net, f \in net :
    /\ d.kind = "ApplicationDetail.handleDelete"
    /\ d.stage = "answered"
    /\ d.effect.rows = 1
    /\ d.effect.cascaded >= 2
    /\ f.kind = "Tasks.fetchTasks"
    /\ f.stage = "answered"
    /\ f.uid = d.uid
    /\ \E i \in DOMAIN f.data : f.data[i].application_id = d.id

\* C7: Get-Application, when its select is served, returns the row exactly
\* when the caller owns it; for an id owned by another user the response is
\* the very response of an id that is not stored at all.  On the response the
\* page shows the row it holds and otherwise, for a foreign id as for a
\* missing one, the same toast and the same route and no data.
C7_GetApplicationHidesForeignRows ==
  [][/\ \A q \in net, r \in net' :
          (ServedAs(q, r) /\ q.kind = "ApplicationDetail.fetchApplication")
          => IF q.uid \in OwnerOfApplication(q.id)
               THEN /\ r.data # Null
                    /\ r.data[1] \in applications
                    /\ r.data[1].id = q.id
                    /\ r.data[1].user_id = q.uid
                    /\ ~r.error
               ELSE r = Answered(q, q.id, FALSE, Null, NoEffect)
     /\ \A q \in net :
          (ResumedOn(q) /\ q.kind = "ApplicationDetail.fetchApplication")
          => /\ outcome'.op = q.kind
             /\ outcome'.caller = q.uid
             /\ outcome'.id = q.id
             /\ loading' = FALSE
             /\ IF q.data # Null /\ ~q.error
                  THEN /\ outcome'.data = Some(ApplicationForm(q.data[1]))
                       /\ view' = outcome'.data
                       /\ outcome'.toasts = <<>>
                       /\ outcome'.navigate = ""
                  ELSE /\ outcome'.toasts = <<"Failed to load application">>
                       /\ outcome'.navigate = "/applications"
                       /\ outcome'.data = Null
                       /\ outcome'.input = NoInput
                       /\ outcome'.effect.rows = 0
                       /\ view' = view]_vars

\* A user asked for an application that is stored and owned by the other user.
C7_Witness ==
  /\ outcome.op = "ApplicationDetail.fetchApplication"
  /\ ~outcome.effect.failed
  /\ OwnerOfApplication(outcome.id) # {}
  /\ outcome.caller \notin OwnerOfApplication(outcome.id)
  /\ outcome.data = Null

\* C8: an update or delete whose id is not stored or is owned by another user
\* (its statement matches no row) reports a failure to the caller, never
\* success.
C8_MissingOrForeignIdReportsFailure ==
  (/\ outcome.op \in {"ApplicationDetail.handleUpdate", "ApplicationDetail.handleDelete",
                      "TaskDetail.handleUpdate", "Tasks.toggleComplete",
                      "TaskDetail.handleDelete"}
   /\ outcome.effect.rows = 0)
  => /\ outcome.toasts # <<>>
     /\ outcome.toasts[1] \in FailureToasts

\* A text without its surrounding whitespace, and the length of that.
OnlyWhitespace(s) == \A i \in DOMAIN s : IsWhitespace(s[i])

Stripped(s) ==
  IF OnlyWhitespace(s) THEN <<>>
  ELSE LET ink   == {i \in DOMAIN s : ~IsWhitespace(s[i])}
           first == CHOOSE i \in ink : \A j \in ink : i <= j
           last  == CHOOSE i \in ink : \A j \in ink : j <= i
       IN SubSeq(s, first, last)

\* What the schema of the application forms is to reject.
BadApplicationInput(x) ==
  \/ Len(Stripped(x.company)) = 0 \/ Len(Stripped(x.company)) > MaxCompanyLen
  \/ Len(Stripped(x.position)) = 0 \/ Len(Stripped(x.position)) > MaxPositionLen
  \/ Len(x.notes) > MaxNotesLen

\* What the schema of the application forms is to reject according to the
\* lengths of the texts as typed.
BadApplicationInputAsTyped(x) ==
  \/ OnlyWhitespace(x.company) \/ Len(x.company) > MaxCompanyLen
  \/ OnlyWhitespace(x.position) \/ Len(x.position) > MaxPositionLen
  \/ Len(x.notes) > MaxNotesLen

\* A call was turned down by the validation in this step: nothing is sent and
\* nothing is written.
TurnedDown ==
  (outcome'.toasts # <<>> /\ outcome'.toasts[1] \in ValidationToasts)
  => /\ net' = net
     /\ submitting' = submitting
     /\ storage' = storage

\* C6 as first stated: a Create-Application whose company or position is
\* empty, only whitespace or longer than 100 characters as typed, or whose
\* notes exceed 1000 characters, fails with a validation message and inserts
\* nothing.
C6_AsStated ==
  /\ []( /\ (/\ outcome.op = "Applications.handleSubmit"
             /\ BadApplicationInputAsTyped(outcome.input))
            => /\ outcome.toasts # <<>>
               /\ outcome.toasts[1] \in ValidationToasts
         /\ \A q \in net :
              q.kind = "Applications.handleSubmit"
              => ~BadApplicationInputAsTyped(q.input))
  /\ [][TurnedDown]_vars

\* C6: a Create-Application whose company or position, with its surrounding
\* whitespace trimmed, is empty or longer than 100 characters, or whose notes
\* as typed exceed 1000 characters, shows the message of a validation issue,
\* and no insert is sent or reaches storage: no insert under way ever carries
\* such an input, and the step that shows the message leaves the requests
\* under way and the storage as they were.
C6_InvalidCreateInsertsNothing ==
  /\ []( /\ (/\ outcome.op = "Applications.handleSubmit"
             /\ BadApplicationInput(outcome.input))
            => /\ outcome.toasts # <<>>
               /\ outcome.toasts[1] \in ValidationToasts
               /\ outcome.effect.rows = 0
         /\ \A q \in net :
              q.kind = "Applications.handleSubmit" => ~BadApplicationInput(q.input))
  /\ [][TurnedDown]_vars

\* A create with a whitespace-only company was turned down while an
\* application was stored.
C6_Witness ==
  /\ outcome.op = "Applications.handleSubmit"
  /\ outcome.input.company = Blank
  /\ outcome.toasts = <<"Company name is required">>
  /\ applications # {}

\* C9: an Update-Application with a status outside the enum fails with a
\* validation message and leaves the stored record unchanged in every field:
\* it is turned down before any request is made, so no update carrying such a
\* status is ever under way, the caller who owns the application is shown a
\* validation message, no step in which such an update is served changes the
\* applications, and every stored application has a status of the enum.
C9_InvalidStatusIsValidationError ==
  /\ []( /\ \A a \in applications : a.status \in ValidStatus
         /\ \A q \in net :
              q.kind = "ApplicationDetail.handleUpdate"
              => q.input.status \in ValidStatus
         /\ (/\ outcome.op = "ApplicationDetail.handleUpdate"
             /\ outcome.input.status \notin ValidStatus
             /\ outcome.caller \in OwnerOfApplication(outcome.id))
            => /\ outcome.toasts # <<>>
               /\ outcome.toasts[1] \in ValidationToasts)
  /\ [][\A q \in net, r \in net' :
          (/\ ServedAs(q, r)
           /\ q.kind = "ApplicationDetail.handleUpdate"
           /\ q.input.status \notin ValidStatus)
          => applications' = applications]_vars

\* The row stored in this step by the insert that was answered with r.
CreatedBy(r) ==
  CHOOSE a \in applications' : a.id = r.id

\* A Create-Application is served and stores a row.
CreateServed(q, r) ==
  /\ ServedAs(q, r)
  /\ q.kind = "Applications.handleSubmit"
  /\ ~r.error

\* Get-Application returns to the caller the stored row of the id when the
\* caller owns it, and the page shows the row of the response.
GetReturnsStoredRow ==
  /\ \A q \in net, r \in net' :
       (/\ ServedAs(q, r)
        /\ q.kind = "ApplicationDetail.fetchApplication"
        /\ q.uid \in OwnerOfApplication(q.id))
       => r.data # Null /\ r.data[1] \in applications /\ r.data[1].id = q.id
  /\ \A q \in net :
       (/\ ResumedOn(q)
        /\ q.kind = "ApplicationDetail.fetchApplication"
        /\ ~q.error /\ q.data # Null)
       => outcome'.data = Some(ApplicationForm(q.data[1]))

\* C10 as first stated: the record Get returns for a created application
\* equals the input X in company, position, status and notes, and its owner
\* is the caller.
C10_AsStated ==
  [][/\ \A q \in net, r \in net' :
          CreateServed(q, r)
          => LET got == ApplicationForm(CreatedBy(r))
             IN /\ applications' = applications \cup {CreatedBy(r)}
                /\ got.company = q.input.company
                /\ got.position = q.input.position
                /\ got.status = q.input.status
                /\ got.notes = q.input.notes
                /\ got.user_id = q.uid
     /\ GetReturnsStoredRow]_vars

\* C10: a create stores one row, and the record Get returns for it (to the
\* same caller, while no update has rewritten it) holds X's company, position
\* and notes without their surrounding whitespace, the status of the form
\* (which is "applied" unless the user chose another) and the caller as owner.
C10_RoundTripTrimmed ==
  [][/\ \A q \in net, r \in net' :
          CreateServed(q, r)
          => LET got == ApplicationForm(CreatedBy(r))
             IN /\ applications' = applications \cup {CreatedBy(r)}
                /\ CreatedBy(r) \notin applications
                /\ got.company = Stripped(q.input.company)
                /\ got.position = Stripped(q.input.position)
                /\ got.status = q.input.status
                /\ got.status \in ValidStatus
                /\ got.notes = Stripped(q.input.notes)
                /\ got.user_id = q.uid
     /\ GetReturnsStoredRow]_vars

\* Get returned the record of the form that was filled in with padded texts.
C10_Witness ==
  /\ outcome.op = "ApplicationDetail.fetchApplication"
  /\ outcome.data # Null
  /\ outcome.data[1].company = Acme
  /\ outcome.data[1].position = Engineer
  /\ outcome.data[1].notes = Note
  /\ outcome.data[1].status = DefaultStatus

\* C5: once two toggles of a task have been carried out, its stored completed
\* value is the one it had before them, however the page's requests interleave.
C5_DoubleToggleRestores ==
  \A t \in tasks : hist.applied[t.id] = 2 => t.completed = hist.original[t.id]

\* The id and the owner of every row of a table.
IdOwner(rows) == {<<r.id, r.user_id>> : r \in rows}

UpdateOps ==
  {"ApplicationDetail.handleUpdate", "TaskDetail.handleUpdate", "Tasks.toggleComplete"}

\* C11: the id and the owner of a record are fixed at creation: an update or a
\* toggle, by whichever caller, leaves the ids and the owners of all stored
\* applications and tasks as they were when its statement is served, and no
\* step of any operation gives a stored id another owner.
C11_OwnerAndIdFixed ==
  [][/\ \A q \in net, r \in net' :
          (ServedAs(q, r) /\ q.kind \in UpdateOps)
          => /\ IdOwner(applications') = IdOwner(applications)
             /\ IdOwner(tasks') = IdOwner(tasks)
     /\ \A a \in applications, b \in applications' : a.id = b.id => a.user_id = b.user_id
     /\ \A t \in tasks, x \in tasks' : t.id = x.id => t.user_id = x.user_id]_vars

\* An owner's update has rewritten a stored application.
C11_Witness ==
  /\ outcome.op = "ApplicationDetail.handleUpdate"
  /\ outcome.effect.rows = 1
  /\ \E a \in applications :
       a.id = outcome.id /\ a.user_id = outcome.caller /\ a.status = "interview"

\* C12: List-Tasks, when its select is served, returns exactly the tasks the
\* caller owns, each once and as stored; a dated task never comes after an
\* undated one, dates ascend, and of two tasks with the same due date (or both
\* without) the one created later comes first.  The page shows that list when
\* the response is handled.
C12_ListTasksSorted ==
  [][/\ \A q \in net, r \in net' :
          (ServedAs(q, r) /\ q.kind = "Tasks.fetchTasks")
          => LET d   == r.data
                 own == {t \in tasks : t.user_id = q.uid}
             IN /\ Len(d) = Cardinality(own)
                /\ {d[i].id : i \in DOMAIN d} = {t.id : t \in own}
                /\ \A i \in DOMAIN d : \E t \in own :
                      /\ t.id = d[i].id /\ t.title = d[i].title
                      /\ t.due_date = d[i].due_date
                      /\ t.completed = d[i].completed /\ t.notes = d[i].notes
                      /\ t.application_id = d[i].application_id
                      /\ t.created_at = d[i].created_at
                      /\ t.updated_at = d[i].updated_at
                /\ \A i, j \in DOMAIN d : i < j =>
                      /\ d[i].due_date = Null => d[j].due_date = Null
                      /\ (d[i].due_date # Null /\ d[j].due_date # Null)
                           => d[i].due_date[1] <= d[j].due_date[1]
                      /\ d[i].due_date = d[j].due_date
                           => d[i].created_at >= d[j].created_at
     /\ \A q \in net :
          (ResumedOn(q) /\ q.kind = "Tasks.fetchTasks" /\ ~q.error)
          => outcome'.data = q.data /\ view' = q.data]_vars

\* A list of two tasks of the caller, one with a due date and one without,
\* the undated one created first.
C12_Witness ==
  /\ outcome.op = "Tasks.fetchTasks"
  /\ Len(outcome.data) = 2
  /\ outcome.data[1].due_date # Null
  /\ outcome.data[2].due_date = Null
  /\ outcome.data[2].created_at < outcome.data[1].created_at

\* C17: List-Applications, when its select is served, returns exactly the
\* applications the caller owns, each once and as stored, the one created
\* later first, whatever the other user holds.  The page shows that list when
\* the response is handled.
C17_ListApplicationsOwnCreatedDesc ==
  [][/\ \A q \in net, r \in net' :
          (ServedAs(q, r) /\ q.kind = "Applications.fetchApplications")
          => LET d   == r.data
                 own == {a \in applications : a.user_id = q.uid}
             IN /\ Len(d) = Cardinality(own)
                /\ \A i \in DOMAIN d : d[i] \in own
                /\ {d[i] : i \in DOMAIN d} = own
                /\ \A i, j \in DOMAIN d : i < j => d[i].created_at >= d[j].created_at
     /\ \A q \in net :
          (ResumedOn(q) /\ q.kind = "Applications.fetchApplications" /\ ~q.error)
          => outcome'.data = q.data /\ view' = q.data]_vars

\* A list of two applications created at different times, while the other
\* user holds an application too.
C17_Witness ==
  /\ outcome.op = "Applications.fetchApplications"
  /\ Len(outcome.data) = 2
  /\ outcome.data[1].created_at > outcome.data[2].created_at
  /\ \E a \in applications : a.user_id # outcome.caller

\* C13: no request of the record store is sent while the session is Loading
\* or Anonymous, and nothing is written to the storage then except by a
\* request that was sent with the token of a signed-in user.
C13_NoRequestUnlessAuthenticated ==
  [][session.state # "Authenticated"
       => /\ \A q \in net' \ net : q.stage # "sent"
          /\ storage' # storage => \E q \in net : q.stage = "sent" /\ q.uid # NoUser]_vars

\* C14: the session starts in Loading and moves only as listed: out of
\* Loading by the restore alone, to Anonymous or Authenticated; never back to
\* Loading; from Authenticated to Anonymous by sign-out or expiry alone; from
\* Anonymous to Authenticated by a successful sign-in alone.
C14_SessionTransitions ==
  /\ session.state = "Loading"
  /\ [][/\ session'.state \in {"Loading", "Anonymous", "Authenticated"}
        /\ session'.state = "Authenticated" <=> session'.user # NoUser
        /\ session'.state = "Loading" => session.state = "Loading"
        /\ (session.state = "Loading" /\ session'.state # "Loading")
             => outcome'.op = "Session.restore"
        /\ (session.state = "Authenticated" /\ session'.state = "Anonymous")
             => outcome'.op \in {"Session.signOut", "Session.expired"}
        /\ (session.state = "Anonymous" /\ session'.state = "Authenticated")
             => outcome'.op = "Session.signIn" /\ outcome'.input.valid]_vars

\* The user has signed out of a session that was signed in.
C14_Witness ==
  /\ outcome.op = "Session.signOut"
  /\ session = Anonymous
  /\ persisted = NoUser

\* C15: a Sign-in with credentials that are not accepted leaves the current
\* and the persisted session as they were and signals an AuthError; a Sign-in
\* changes the session only when it succeeds, and then the user signed in is
\* the current and the persisted session.
C15_FailedSignInChangesNothing ==
  [][outcome'.op = "Session.signIn"
       => IF outcome'.input.valid
            THEN /\ session' = Authenticated(outcome'.caller)
                 /\ persisted' = outcome'.caller
                 /\ outcome'.toasts = <<>>
            ELSE /\ session' = session
                 /\ persisted' = persisted
                 /\ outcome'.toasts = <<"AuthError">>]_vars

\* A sign-in failed while a user was signed in, who still is.
C15_Witness ==
  /\ outcome.op = "Session.signIn"
  /\ ~outcome.input.valid
  /\ outcome.toasts = <<"AuthError">>
  /\ session.state = "Authenticated"
  /\ persisted = session.user

\* The stored row of a table with the given id, as a set.
RowWithId(rows, id) == {r \in rows : r.id = id}

\* C16: created_at of a stored record never changes and updated_at never
\* goes back or before created_at; an update or toggle that writes a record
\* sets its updated_at to the time at which the statement is served.
C16_UpdatedAtAdvances ==
  [][/\ \A a \in applications, b \in applications' : a.id = b.id =>
          /\ b.created_at = a.created_at
          /\ b.updated_at >= a.updated_at
          /\ b.updated_at >= b.created_at
     /\ \A t \in tasks, x \in tasks' : t.id = x.id =>
          /\ x.created_at = t.created_at
          /\ x.updated_at >= t.updated_at
          /\ x.updated_at >= x.created_at
     /\ \A q \in net, r \in net' :
          (ServedAs(q, r) /\ r.effect.rows = 1)
          => /\ q.kind = "ApplicationDetail.handleUpdate"
                  => \A b \in RowWithId(applications', q.id) : b.updated_at = now
             /\ q.kind \in {"TaskDetail.handleUpdate", "Tasks.toggleComplete"}
                  => \A x \in RowWithId(tasks', q.id) : x.updated_at = now]_vars

\* A task was toggled after the clock had moved on from its creation.
C16_Witness ==
  /\ outcome.op = "Tasks.toggleComplete"
  /\ outcome.effect.rows = 1
  /\ \E t \in RowWithId(tasks, outcome.id) :
       t.updated_at = now /\ t.updated_at > t.created_at

\* The columns of a task that a toggle is to leave alone.
ExceptCompleted(t) ==
  [id |-> t.id, application_id |-> t.application_id, user_id |-> t.user_id,
   title |-> t.title, due_date |-> t.due_date, notes |-> t.notes,
   created_at |-> t.created_at]

\* C19: Toggle-Task-Completed, when its statement is served, leaves every
\* application and every task with another id as it was, removes and adds no
\* task, and leaves the title, due date, notes, parent application, owner and
\* created_at of the task with the given id as they were; its other steps
\* write nothing.
C19_ToggleChangesOnlyCompleted ==
  [][/\ \A q \in net, r \in net' :
          (ServedAs(q, r) /\ q.kind = "Tasks.toggleComplete")
          => /\ applications' = applications
             /\ {t \in tasks : t.id # q.id} = {t \in tasks' : t.id # q.id}
             /\ {ExceptCompleted(t) : t \in tasks} = {ExceptCompleted(t) : t \in tasks'}
             /\ Cardinality(tasks') = Cardinality(tasks)
     /\ NothingServed => (applications' = applications /\ tasks' = tasks)]_vars

\* The owner of two tasks toggled one of them: it is completed, the other not.
C19_Witness ==
  /\ outcome.op = "Tasks.toggleComplete"
  /\ outcome.effect.rows = 1
  /\ \E t \in tasks, x \in tasks :
       /\ t.id = outcome.id /\ t.completed /\ t.user_id = outcome.caller
       /\ x.id # t.id /\ x.user_id = t.user_id /\ ~x.completed

\* C20: Delete-Task by the owner of the task with the given id, when its
\* statement is served, removes that one task and leaves every other task and
\* every application as it was; by anyone else it removes nothing, and when
\* the request fails on the way, as in every step that is not the statement
\* at the storage, nothing is removed.
C20_DeleteTaskRemovesOnlyThatTask ==
  [][/\ \A q \in net, r \in net' :
          (ServedAs(q, r) /\ q.kind = "TaskDetail.handleDelete")
          => LET own == {t \in tasks : t.id = q.id /\ t.user_id = q.uid}
             IN /\ applications' = applications
                /\ own # {} => (tasks' = tasks \ own /\ Cardinality(own) = 1)
                /\ own = {} => tasks' = tasks
                /\ r.effect.rows = Cardinality(own)
     /\ NothingServed => (applications' = applications /\ tasks' = tasks)]_vars

\* The owner of two tasks of one application deleted one of them; the other
\* task and the application are stored still.
C20_Witness ==
  /\ outcome.op = "TaskDetail.handleDelete"
  /\ outcome.effect.rows = 1
  /\ RowWithId(tasks, outcome.id) = {}
  /\ \E x \in tasks : /\ x.user_id = outcome.caller
                       /\ \E a \in applications : a.id = x.application_id

\* The first constraint an application form violates, in the order company,
\* position, notes, as the message shown for it ("" when it violates none).
FirstApplicationViolation(x) ==
  IF Len(Stripped(x.company)) = 0 THEN "Company name is required"
  ELSE IF Len(Stripped(x.company)) > 100
    THEN "String must contain at most 100 character(s)"
  ELSE IF Len(Stripped(x.position)) = 0 THEN "Position is required"
  ELSE IF Len(Stripped(x.position)) > 100
    THEN "String must contain at most 100 character(s)"
  ELSE IF Len(x.notes) > 1000 THEN "String must contain at most 1000 character(s)"
  ELSE ""

\* The same for a task form, in the order title, notes, applicationId.
FirstTaskViolation(x) ==
  IF Len(Stripped(x.title)) = 0 THEN "Title is required"
  ELSE IF Len(Stripped(x.title)) > 200
    THEN "String must contain at most 200 character(s)"
  ELSE IF Len(x.notes) > 1000 THEN "String must contain at most 1000 character(s)"
  ELSE IF x.applicationId = EmptyId THEN "Please select an application"
  ELSE ""

\* The call was turned down by the validation with message v, or passed it
\* when v is "".
ValidatedAs(v) ==
  IF v = ""
    THEN outcome.toasts = <<>> \/ outcome.toasts[1] \notin ValidationToasts
    ELSE outcome.toasts = <<v>>

\* C18: create and update validate alike: on every input of the application
\* forms Create-Application and Update-Application both pass it or both turn
\* it down for the first constraint it violates in the order company,
\* position, notes; Create-Task and Update-Task likewise in the order title,
\* notes, applicationId.  Only an input that violates none is sent, and a
\* call that is turned down sends and writes nothing.
C18_CreateAndUpdateValidateAlike ==
  /\ []( /\ outcome.op \in {"Applications.handleSubmit", "ApplicationDetail.handleUpdate"}
              => ValidatedAs(FirstApplicationViolation(outcome.input))
         /\ outcome.op \in {"Tasks.handleSubmit", "TaskDetail.handleUpdate"}
              => ValidatedAs(FirstTaskViolation(outcome.input))
         /\ \A q \in net :
              /\ q.kind \in {"Applications.handleSubmit", "ApplicationDetail.handleUpdate"}
                   => FirstApplicationViolation(q.input) = ""
              /\ q.kind \in {"Tasks.handleSubmit", "TaskDetail.handleUpdate"}
                   => FirstTaskViolation(q.input) = "")
  /\ [][TurnedDown]_vars

\* The update form of an application turned down a blank position after a
\* company that is valid once trimmed.
C18_Witness ==
  /\ outcome.op = "ApplicationDetail.handleUpdate"
  /\ outcome.input.position = Blank
  /\ outcome.toasts = <<"Position is required">>
  /\ applications # {}

\* C21: on the Tasks page, once every request the page has issued (toggles,
\* creates and the re-fetches they start) has completed, the list on display
\* is the list of the caller's tasks in storage, whatever the order in which
\* the responses of overlapping re-fetches arrive.
C21_SettledListIsStored ==
  (hist.mounted /\ net = {}) => view \in FetchTasksData(PageUser, tasks)

\* C22 as stated: whenever fetchStats completes, the statistics it displays
\* satisfy pendingTasks <= totalTasks and interviewStage <= totalApplications,
\* for any interleaving of the four count queries with the user's writes
\* (looked at only when none of the four queries failed).
C22_AsStated ==
  (outcome.op = "Dashboard.fetchStats" /\ \A q \in outcome.input : ~q.error) =>
    /\ outcome.data.pendingTasks <= outcome.data.totalTasks
    /\ outcome.data.interviewStage <= outcome.data.totalApplications

OwnRows(rows) == {r \in rows : r.user_id = PageUser}

CountSeen(q) ==
  CASE q.kind = "totalApplications" -> Cardinality(OwnRows(q.seen))
    [] q.kind = "totalTasks"        -> Cardinality(OwnRows(q.seen))
    [] q.kind = "pendingTasks"      -> Cardinality({t \in OwnRows(q.seen) : ~t.completed})
    [] q.kind = "interviewStage"    ->
         Cardinality({a \in OwnRows(q.seen) : a.status = "interview"})

\* The two count queries of table `what` ("tasks" or "applications") among
\* the results rs: the total and the filtered one.
TotalOf(rs, what) ==
  CHOOSE q \in rs :
    q.kind = IF what = "tasks" THEN "totalTasks" ELSE "totalApplications"

PartOf(rs, what) ==
  CHOOSE q \in rs :
    q.kind = IF what = "tasks" THEN "pendingTasks" ELSE "interviewStage"

\* C22, amended: whenever fetchStats completes, each statistic it displays is
\* the number of the caller's rows its query matched when that query was
\* served, or 0 if the query failed; so pendingTasks <= totalTasks holds when
\* the total query did not fail and was served on the rows the pending query
\* was served on (no statement, cascade included, changed the tasks between
\* them), or when the pending query failed, and likewise interviewStage <=
\* totalApplications.
C22_StatsAreServedCounts ==
  outcome.op = "Dashboard.fetchStats" =>
    /\ view = outcome.data
    /\ \A q \in outcome.input :
         view[q.kind] = IF q.error THEN 0 ELSE CountSeen(q)
    /\ \A what \in {"tasks", "applications"} :
         LET total == TotalOf(outcome.input, what)
             part  == PartOf(outcome.input, what)
         IN (part.error \/ (~total.error /\ total.seen = part.seen))
            => view[part.kind] <= view[total.kind]

\* fetchStats has shown more applications in the interview stage than
\* applications, and more pending tasks than tasks, with no query failed.
C22_Witness ==
  /\ outcome.op = "Dashboard.fetchStats"
  /\ \A q \in outcome.input : ~q.error
  /\ view.interviewStage > view.totalApplications
  /\ view.pendingTasks > view.totalTasks

InsertInFlight == \E q \in net : q.kind = "handleSubmit"

RejectedSubmit ==
  /\ outcome' # outcome
  /\ outcome'.op \in {"Applications.handleSubmit", "Tasks.handleSubmit"}
  /\ outcome'.toasts \in {<<m>> : m \in ValidationToasts \cup {"Please select an application"}}

\* C23: in the create forms, submitting is true for the whole time an insert
\* request is under way and false again once the handler has dealt with its
\* response, success or failure; a submission the form rejects never sets
\* submitting to true (and sends nothing).
C23_SubmittingWhileInsertInFlight ==
  /\ [](submitting <=> InsertInFlight)
  /\ [][RejectedSubmit => (~submitting /\ ~submitting' /\ net' = net)]_vars

C23_Witness ==
  /\ hist.submits > 0
  /\ ~submitting
  /\ ~InsertInFlight
  /\ outcome.toasts \in {<<"Failed to create application">>, <<"Failed to create task">>}

ListFetches == {"fetchApplications", "fetchTasks"}

FetchStarted == hist.mounted \/ hist.effectUser # NoUser

\* C24: a list fetch that fails leaves the list on display as it was, and
\* every list fetch ends with loading = false, success or failure: when the
\* handler deals with a fetch's response loading becomes false, and once no
\* fetch is under way loading is false.
C24_FailedFetchKeepsList ==
  /\ []((FetchStarted /\ \A q \in net : q.kind \notin ListFetches) => ~loading)
  /\ [][\A q \in net \ net' :
          (q.kind \in ListFetches /\ q.stage = "answered")
            => (~loading' /\ (q.error => view' = view))]_vars

C24_Witness ==
  /\ outcome.toasts \in {<<"Failed to load applications">>, <<"Failed to load tasks">>}
  /\ view # <<>>
  /\ ~loading
  /\ \A q \in net : q.kind \notin ListFetches

====
